---- MODULE Spec2Model ----
(***************************************************************************)
(* Compliance scoring and ranking of the weather-risk platform:            *)
(* backend/app/routers/sensors.py (scorer, reader, compliance and ranking  *)
(* endpoints), backend/app/daily_sensor_generation.py (the writers of      *)
(* sensor readings, recommendation entries and ranking rows) and           *)
(* backend/app/demo_sensor_device.py (the device's ranking rebuild).       *)
(***************************************************************************)
EXTENDS Integers, Sequences, FiniteSets, TLC

VARIABLES
    now,                      \* wall clock, in hours since midnight of day 0
    businesses,               \* table businesses, in insertion order
    sensor_readings,          \* table sensor_readings, in insertion order
    recommendation_tracking,  \* table recommendation_tracking, in insertion order
    business_rankings,        \* table business_rankings, in insertion order
    response,                 \* what the last handler returned
    seeded_status,            \* the statuses sha256 yields for (business_id, date), once drawn
    insurance_companies,      \* table insurance_companies: the ids
    policies,                 \* table policies, in insertion order
    call,                     \* arguments of a direct call of the scorer
    result,                   \* what that call returned
    sessions,                 \* the open transaction of each session that rebuilds rankings
    users,                    \* table users: the users of businesses, in insertion order
    business_notes,           \* table business_notes, in insertion order
    risk_assessments,         \* table risk_assessments, in insertion order
    claims,                   \* table claims, in insertion order
    email_logs,               \* table email_logs, in insertion order
    notifications,            \* table notifications, in insertion order
    serial                    \* the last value each SERIAL primary key handed out

vars == <<now, businesses, sensor_readings, recommendation_tracking,
          business_rankings, seeded_status, insurance_companies, policies,
          response, call, result, sessions, users, business_notes,
          risk_assessments, claims, email_logs, notifications, serial>>

storage == <<businesses, sensor_readings, recommendation_tracking, business_rankings>>

insurance == <<insurance_companies, policies>>

records == <<users, business_notes, risk_assessments, claims, email_logs, notifications>>

\* no primary key handed out yet, but the user_id of the three CurrentUsers
NoSerial == [business_id |-> 0, user_id |-> 3, policy_id |-> 0]

\* the sessions of two create_policy requests that are served at the same time
PolicyRequests == {"policy_1", "policy_2"}

\* The database sessions that rebuild ranking rows: the one of the daily generation,
\* the one of a registration request and the one of the sensor device; and the
\* sessions of the two create_policy requests.
Sessions == {"daily", "register", "device"} \cup PolicyRequests

\* a session with no transaction open
NoSession == [pc |-> "idle", todo |-> <<>>, writes |-> <<>>,
              readings |-> <<>>, recommendations |-> <<>>, runs |-> 0]

(***************************************************************************)
(* Bounds of the model.                                                    *)
(***************************************************************************)
MaxSensors == 3      \* longest snapshot handed directly to the scorer
MaxRecs == 4         \* largest recommendations_total handed directly to the scorer
NumDemo == 1         \* how many of DEMO_BUSINESSES seed_data creates
MaxBusinesses == 2   \* rows of table businesses
MaxReadings == 10    \* rows of table sensor_readings
MaxDays == 2         \* days the clock runs through
MaxShuffled == 3     \* longest table whose rows a query may return in any order
MaxPolicies == 1     \* policies created through POST /insurance/policies
MaxRebuilds == 1     \* transactions the daily session and the device session run

(***************************************************************************)
(* Enumerations.                                                           *)
(***************************************************************************)
SensorTypes == {"Temperature", "Humidity", "Power"}
Statuses == {"normal", "warning", "critical"}
Categories == {"temperature_control", "equipment_maintenance",
               "safety_protocols", "inventory_management"}
NoResult == [op |-> "none"]

RECURSIVE Gcd(_, _)
Gcd(a, b) == IF b = 0 THEN a ELSE Gcd(b, a % b)

\* A ratio a/b in lowest terms (0/b is 0/1; b = 0 only for "no recommendations").
Ratio(a, b) == IF a = 0 \/ b = 0 THEN <<0, 1>> ELSE <<a \div Gcd(a, b), b \div Gcd(a, b)>>

(***************************************************************************)
(* Python evaluates the scores in IEEE-754 doubles and truncates with      *)
(* int().  The truncated value is the floor of the exact rational value,   *)
(* except where the double lands just below an integer the exact value     *)
(* reaches.  These are those inputs, as ratios in lowest terms, for every  *)
(* snapshot of at most 15 sensors and every recommendations_total in       *)
(* 0..10 or equal to 22 (the domain the model stays in).                   *)
(***************************************************************************)
\* int(sensor_score * 0.6 + recommendation_score * 0.4) is one below the exact floor
OverallShortfall ==
    { <<<<1, 12>>, <<0, 1>>>>, <<<<1, 6>>, <<0, 1>>>>, <<<<1, 6>>, <<1, 10>>>>,
      <<<<1, 6>>, <<1, 8>>>>, <<<<3, 11>>, <<1, 11>>>>, <<<<1, 3>>, <<0, 1>>>>,
      <<<<1, 3>>, <<1, 10>>>>, <<<<1, 3>>, <<1, 8>>>>, <<<<1, 3>>, <<1, 5>>>>,
      <<<<1, 3>>, <<1, 4>>>>, <<<<1, 3>>, <<3, 10>>>>, <<<<7, 15>>, <<0, 1>>>>,
      <<<<7, 15>>, <<1, 10>>>>, <<<<6, 11>>, <<2, 11>>>>, <<<<6, 11>>, <<15, 22>>>>,
      <<<<2, 3>>, <<0, 1>>>>, <<<<2, 3>>, <<1, 10>>>>, <<<<2, 3>>, <<1, 8>>>>,
      <<<<2, 3>>, <<1, 5>>>>, <<<<2, 3>>, <<1, 4>>>>, <<<<2, 3>>, <<3, 10>>>>,
      <<<<2, 3>>, <<3, 8>>>>, <<<<2, 3>>, <<2, 5>>>>, <<<<2, 3>>, <<1, 2>>>>,
      <<<<2, 3>>, <<3, 5>>>>, <<<<11, 15>>, <<0, 1>>>>, <<<<11, 15>>, <<1, 10>>>>,
      <<<<11, 15>>, <<1, 8>>>>, <<<<11, 15>>, <<1, 5>>>>, <<<<11, 15>>, <<1, 4>>>>,
      <<<<11, 15>>, <<3, 10>>>>, <<<<11, 15>>, <<3, 8>>>>, <<<<11, 15>>, <<2, 5>>>>,
      <<<<11, 15>>, <<1, 2>>>>, <<<<8, 9>>, <<1, 6>>>>, <<<<10, 11>>, <<3, 22>>>>,
      <<<<11, 12>>, <<0, 1>>>>, <<<<11, 12>>, <<1, 10>>>>, <<<<11, 12>>, <<1, 8>>>>,
      <<<<11, 12>>, <<1, 5>>>>, <<<<14, 15>>, <<0, 1>>>>, <<<<14, 15>>, <<1, 10>>>>,
      <<<<14, 15>>, <<1, 8>>>>, <<<<14, 15>>, <<1, 5>>>> }

\* int(recommendation_score * 0.98) is one below the exact floor
SafetyShortfall == { <<1, 7>>, <<2, 7>>, <<3, 7>>, <<4, 7>>, <<6, 7>> }

(***************************************************************************)
(* routers/sensors.py: the scorer.                                         *)
(***************************************************************************)
\* if overall_score >= 90 ... elif >= 75 ... elif >= 60 ... else
RankOf(overall_score) ==
    IF overall_score >= 90 THEN "Excellent"
    ELSE IF overall_score >= 75 THEN "Good"
    ELSE IF overall_score >= 60 THEN "Fair"
    ELSE "Needs Improvement"

\* a score that weighs the sensors that are not normal
InvertedScore(normal_count, total_sensors, followed, total) ==
    (60 * (total_sensors - normal_count)) \div total_sensors
        + (IF total > 0 THEN (40 * followed) \div total ELSE 0)

\* int(sensor_score * 0.6 + recommendation_score * 0.4), with
\* sensor_score = normal_count / total_sensors * 100 and
\* recommendation_score = followed / total * 100 if total > 0 else 0
OverallScore(normal_count, total_sensors, followed, total) ==
    LET exact == IF total > 0
                 THEN (60 * normal_count * total + 40 * followed * total_sensors)
                          \div (total_sensors * total)
                 ELSE (60 * normal_count) \div total_sensors
        short == <<Ratio(normal_count, total_sensors), Ratio(followed, total)>>
                     \in OverallShortfall
    IN  IF short THEN exact - 1 ELSE exact

\* int(score * weight) for a score num / den * 100 and a weight of pct / 100
Weighted(num, den, pct, shortfall) ==
    IF den = 0 THEN 0
    ELSE IF Ratio(num, den) \in shortfall THEN (pct * num) \div den - 1
    ELSE (pct * num) \div den

calculate_compliance_score(sensors, recommendations_followed, recommendations_total) ==
    LET total_sensors == Len(sensors)
        normal_count == Cardinality({i \in DOMAIN sensors : sensors[i].status = "normal"})
        overall_score == OverallScore(normal_count, total_sensors,
                                      recommendations_followed, recommendations_total)
    IN  IF total_sensors = 0
        THEN [overall_score |-> 0,
              category_scores |-> [c \in {} |-> 0],
              recommendations_followed |-> 0,
              recommendations_total |-> 0,
              rank |-> "Poor"]
        ELSE [overall_score |-> overall_score,
              category_scores |->
                  [c \in Categories |->
                      CASE c = "temperature_control" ->
                               Weighted(normal_count, total_sensors, 95, {})
                        [] c = "equipment_maintenance" ->
                               Weighted(normal_count, total_sensors, 92, {})
                        [] c = "safety_protocols" ->
                               Weighted(recommendations_followed, recommendations_total,
                                        98, SafetyShortfall)
                        [] c = "inventory_management" ->
                               Weighted(recommendations_followed, recommendations_total,
                                        85, {})],
              recommendations_followed |-> recommendations_followed,
              recommendations_total |-> recommendations_total,
              rank |-> RankOf(overall_score)]

(***************************************************************************)
(* The scorer called directly: Init draws the arguments, Score applies it. *)
(***************************************************************************)
SeqsUpTo(S, n) == UNION {[1..k -> S] : k \in 0..n}

SnapshotEntries == [sensor_type : SensorTypes, status : Statuses]

Idle ==
    /\ now = 0
    /\ businesses = <<>>
    /\ sensor_readings = <<>>
    /\ recommendation_tracking = <<>>
    /\ business_rankings = <<>>
    /\ seeded_status = <<>>
    /\ insurance_companies = {}
    /\ policies = <<>>
    /\ response = NoResult
    /\ sessions = [s \in Sessions |-> NoSession]
    /\ users = <<>>
    /\ business_notes = <<>>
    /\ risk_assessments = <<>>
    /\ claims = <<>>
    /\ email_logs = <<>>
    /\ notifications = <<>>
    /\ serial = NoSerial

InitScore ==
    /\ Idle
    /\ \E sensors \in SeqsUpTo(SnapshotEntries, MaxSensors), total \in 0..MaxRecs :
           \E followed \in 0..total :
               call = [sensors |-> sensors,
                       recommendations_followed |-> followed,
                       recommendations_total |-> total]
    /\ result = NoResult

Score ==
    /\ result = NoResult
    /\ result' = calculate_compliance_score(call.sensors, call.recommendations_followed,
                                            call.recommendations_total)
    /\ UNCHANGED <<now, storage, seeded_status, insurance, response, call, records, serial, sessions>>

NextScore == Score

SpecScore == InitScore /\ [][NextScore]_vars


(***************************************************************************)
(* Storage and its writers.                                                *)
(***************************************************************************)
\* constants.py DEMO_BUSINESSES: name and store_type
DEMO_BUSINESSES ==
    << [name |-> "Amarillo Prime Cuts", store_type |-> "butcher_shop"],
       [name |-> "Columbus Fine Wines", store_type |-> "winery"],
       [name |-> "Tacoma Meats & Deli", store_type |-> "butcher_shop"],
       [name |-> "Fairfield Estate Winery", store_type |-> "winery"],
       [name |-> "Georgetown Butcher Co.", store_type |-> "butcher_shop"],
       [name |-> "Portland Valley Wines", store_type |-> "winery"] >>

StoreTypes == {"butcher_shop", "winery"}

\* daily_sensor_generation.py SENSOR_CONFIGS: the sensor_type of each configured sensor
SENSOR_CONFIGS ==
    [butcher_shop |-> <<"Temperature", "Temperature", "Humidity", "Power", "Temperature">>,
     winery |-> <<"Temperature", "Humidity", "Temperature", "Power", "Humidity">>]

\* sensor_type[:4].upper()
Prefix(sensor_type) ==
    CASE sensor_type = "Temperature" -> "TEMP"
      [] sensor_type = "Humidity" -> "HUMI"
      [] sensor_type = "Power" -> "POWE"

\* f"{sensor_type[:4].upper()}-{str(i).zfill(3)}", kept as the pair (prefix, i)
SensorId(sensor_type, i) == <<Prefix(sensor_type), i>>

\* The statuses the sha256 seeds may give the five sensors of one business on one date.
StatusProfiles ==
    { <<"normal", "normal", "normal", "normal", "normal">>,
      <<"normal", "warning", "normal", "critical", "warning">> }

\* date.replace(hour=6, minute=0, second=0, microsecond=0)
SixAM(date) == (date \div 24) * 24 + 6

\* date.strftime("%Y-%m-%d")
DateStr(date) == date \div 24

generate_sensor_readings_for_business(business, date, profile) ==
    LET configs == SENSOR_CONFIGS[business.store_type]
    IN  [i \in 1..Len(configs) |->
            [business_id |-> business.business_id,
             sensor_id |-> SensorId(configs[i], i),
             sensor_type |-> configs[i],
             status |-> profile[i],
             timestamp |-> SixAM(date)]]

\* The profiles sha256 can give (business_id, date): the one already drawn, or any.
ProfilesFor(business_id, date) ==
    IF <<business_id, DateStr(date)>> \in DOMAIN seeded_status
    THEN {seeded_status[<<business_id, DateStr(date)>>]}
    ELSE StatusProfiles

Rows(table, business_id) == SelectSeq(table, LAMBDA r : r.business_id = business_id)

Implemented(recommendations) ==
    Cardinality({i \in DOMAIN recommendations : recommendations[i].status = "implemented"})

\* The latest reading of each sensor of the business within the window, as the
\* callers in daily_sensor_generation.py and routers/insurance.py use it.
get_latest_sensors_for_business(readings, business_id, hours, at) ==
    LET mine == SelectSeq(readings, LAMBDA r :
                    r.business_id = business_id /\ r.timestamp >= at - hours)
        Latest(i) == \A j \in DOMAIN mine :
                        mine[j].sensor_id = mine[i].sensor_id =>
                            \/ mine[j].timestamp < mine[i].timestamp
                            \/ (mine[j].timestamp = mine[i].timestamp /\ i <= j)
        keep == {i \in DOMAIN mine : Latest(i)}
        RECURSIVE Pick(_)
        Pick(k) == IF k > Len(mine) THEN <<>>
                   ELSE (IF k \in keep
                         THEN <<[sensor_id |-> mine[k].sensor_id,
                                 sensor_type |-> mine[k].sensor_type,
                                 status |-> mine[k].status,
                                 timestamp |-> mine[k].timestamp]>>
                         ELSE <<>>) \o Pick(k + 1)
    IN  Pick(1)

\* BusinessRanking.overall_score is a Float column: the table holds it in tenths
Tenths(points) == 10 * points

\* _update_business_ranking, on the rows the session's queries see
update_business_ranking_row(readings, recommendations, rankings, business, at) ==
    LET sensors_data == get_latest_sensors_for_business(readings, business.business_id, 24, at)
        mine == Rows(recommendations, business.business_id)
        recommendations_followed == Implemented(mine)
        recommendations_total == Len(mine)
        compliance == calculate_compliance_score(sensors_data, recommendations_followed,
                                                 recommendations_total)
        existing == {i \in DOMAIN rankings : rankings[i].business_id = business.business_id}
    IN  IF existing # {}
        THEN LET first == CHOOSE i \in existing : \A j \in existing : i <= j
             IN  [rankings EXCEPT ![first] =
                     [@ EXCEPT !.overall_score = Tenths(compliance.overall_score),
                               !.rank_level = compliance.rank,
                               !.recommendations_followed = recommendations_followed,
                               !.recommendations_total = recommendations_total]]
        ELSE Append(rankings,
                    [business_id |-> business.business_id,
                     overall_score |-> Tenths(compliance.overall_score),
                     rank |-> 0,
                     rank_level |-> compliance.rank,
                     recommendations_followed |-> recommendations_followed,
                     recommendations_total |-> recommendations_total])

\* a nullable foreign key or string that is NULL
NoBusinessId == 0
NoCompany == 0
NoStoreType == "null"

\* init_db.seed_data: "State Farm" (ID=1), also the company an Admin acts for
DefaultCompany == 1

\* init_db.seed_data risk_types: the thresholds of the cold, storm and heat policies
DefaultThresholds == <<75, 70, 70>>

\* The policies seed_data adds: none when a general policy of the default company is
\* found, else all three (the session does not autoflush, so the policies added in
\* this run are not seen by the later queries of the loop).
SeededPolicies(table) ==
    IF \E i \in DOMAIN table : /\ table[i].insurance_company_id = DefaultCompany
                               /\ table[i].business_id = NoBusinessId
                               /\ table[i].store_type = NoStoreType
                               /\ table[i].requirements # "null"
    THEN <<>>
    ELSE [k \in DOMAIN DefaultThresholds |->
             [policy_id |-> serial.policy_id + k,
              insurance_company_id |-> DefaultCompany,
              business_id |-> NoBusinessId,
              store_type |-> NoStoreType,
              compliance_threshold |-> DefaultThresholds[k],
              requirements |-> "risk"]]

\* init_db.seed_data: the demo businesses that do not exist yet, by name
seed_data ==
    LET demo == SubSeq(DEMO_BUSINESSES, 1, NumDemo)
        missing == SelectSeq(demo, LAMBDA d :
                       \A i \in DOMAIN businesses : businesses[i].name # d.name)
        created == [k \in 1..Len(missing) |->
                       [business_id |-> serial.business_id + k,
                        name |-> missing[k].name,
                        store_type |-> missing[k].store_type,
                        insurance_company_id |-> DefaultCompany]]
    IN  /\ missing # <<>>
        /\ serial.business_id + Len(missing) <= MaxBusinesses
        /\ businesses' = businesses \o created
        /\ insurance_companies' = insurance_companies \cup {DefaultCompany}
        /\ policies' = policies \o SeededPolicies(policies)
        /\ serial' = [serial EXCEPT !.business_id = @ + Len(missing),
                                    !.policy_id = @ + Len(SeededPolicies(policies))]
        /\ response' = [op |-> "seed_data"]
        /\ UNCHANGED <<now, sensor_readings, recommendation_tracking, business_rankings,
                       seeded_status, call, records, result, sessions>>

\* generate_initial_compliance_data: three recommendations for each of cold, heat,
\* storm; implemented unless rec_index % 3 = 2
InitialRecommendations(business_id) ==
    [k \in 1..9 |->
        [business_id |-> business_id,
         status |-> IF (k - 1) % 3 # 2 THEN "implemented" ELSE "pending"]]

\* routers/auth.py register (a business user) with GENERATE_DEMO_DATA_ON_REGISTER
register(store_type, insurance_company_id) ==
    LET business == [business_id |-> serial.business_id + 1,
                     name |-> "Registered Business",
                     store_type |-> store_type,
                     insurance_company_id |-> insurance_company_id]
    IN  /\ serial.business_id < MaxBusinesses
        /\ Len(sensor_readings) + 5 <= MaxReadings
        /\ IF insurance_company_id # NoCompany /\ insurance_company_id \notin insurance_companies
           \* db.flush() of the business fails on the foreign key to insurance_companies
           THEN /\ response' = [op |-> "register", business_id |-> NoBusinessId]
                /\ UNCHANGED <<storage, seeded_status, users, serial>>
           ELSE /\ \E profile \in ProfilesFor(business.business_id, now) :
                      /\ seeded_status' =
                             [k \in DOMAIN seeded_status
                                        \cup {<<business.business_id, DateStr(now)>>}
                                 |-> IF k \in DOMAIN seeded_status THEN seeded_status[k]
                                     ELSE profile]
                      /\ sensor_readings' = sensor_readings \o
                             generate_sensor_readings_for_business(business, now, profile)
                /\ businesses' = Append(businesses, business)
                /\ users' = Append(users, [user_id |-> serial.user_id + 1,
                                           role |-> "Business",
                                           business_id |-> business.business_id])
                /\ serial' = [serial EXCEPT !.business_id = @ + 1, !.user_id = @ + 1]
                /\ recommendation_tracking' =
                       recommendation_tracking \o InitialRecommendations(business.business_id)
                \* db.flush() precedes the ranking update: it sees the new rows
                /\ business_rankings' =
                       update_business_ranking_row(sensor_readings', recommendation_tracking',
                                                   business_rankings, business, now)
                /\ response' = [op |-> "register", business_id |-> business.business_id]
        /\ UNCHANGED <<now, insurance, call, result, sessions, business_notes,
                       risk_assessments, claims, email_logs, notifications>>

RECURSIVE GenerateAll(_, _, _)
\* the readings of one run, business after business
GenerateAll(bs, date, profiles) ==
    IF bs = <<>> THEN <<>>
    ELSE generate_sensor_readings_for_business(Head(bs), date, profiles[Head(bs).business_id])
             \o GenerateAll(Tail(bs), date, profiles)

RECURSIVE UpdateAll(_, _, _, _, _)
UpdateAll(bs, readings, recommendations, rankings, at) ==
    IF bs = <<>> THEN rankings
    ELSE UpdateAll(Tail(bs), readings, recommendations,
                   update_business_ranking_row(readings, recommendations, rankings,
                                               Head(bs), at),
                   at)

\* run_daily_sensor_generation(db) with target_date = now
run_daily_sensor_generation ==
    LET ids == {businesses[i].business_id : i \in DOMAIN businesses}
    IN  /\ businesses # <<>>
        /\ Len(sensor_readings) + 5 * Len(businesses) <= MaxReadings
        /\ \E profiles \in [ids -> StatusProfiles] :
              /\ \A b \in ids : profiles[b] \in ProfilesFor(b, now)
              /\ seeded_status' =
                     [k \in DOMAIN seeded_status \cup {<<b, DateStr(now)>> : b \in ids}
                         |-> IF k \in DOMAIN seeded_status THEN seeded_status[k]
                             ELSE profiles[k[1]]]
              /\ sensor_readings' = sensor_readings \o GenerateAll(businesses, now, profiles)
        \* autoflush=False and no flush before the commit: the ranking queries of this
        \* session see the tables as they were before the run
        /\ business_rankings' = UpdateAll(businesses, sensor_readings, recommendation_tracking,
                                          business_rankings, now)
        /\ response' = [op |-> "run_daily_sensor_generation"]
        /\ UNCHANGED <<now, businesses, recommendation_tracking, insurance, call, records, serial, result, sessions>>

\* A day passes.
Tick ==
    /\ now + 24 < 24 * MaxDays
    /\ now' = now + 24
    /\ response' = [op |-> "tick"]
    /\ UNCHANGED <<storage, seeded_status, insurance, call, records, serial, result, sessions>>


(***************************************************************************)
(* routers/sensors.py: the handlers.                                       *)
(***************************************************************************)
BusinessIds == {businesses[i].business_id : i \in DOMAIN businesses}

Hours == {12, 24}
Limits == {0, 1, 10}

\* random.randint(15, 22): the draws the model takes
MockFollowed == {15, 22}
MockDraws == [statuses : StatusProfiles, followed : MockFollowed]

\* random.randint(0, 60) minutes before now: the draws the model takes
MockMinutes == {0, 60}

\* generate_mock_sensor_data(business_id): sensor_types[i % 4] at the five locations
MockSensorTypes == <<"Temperature", "Humidity", "Power", "Temperature", "Temperature">>

generate_mock_sensor_data(business_id, at, statuses, minutes) ==
    [i \in 1..Len(MockSensorTypes) |->
        [sensor_id |-> SensorId(MockSensorTypes[i], i),
         sensor_type |-> MockSensorTypes[i],
         status |-> statuses[i],
         timestamp |-> at - minutes \div 60,
         business_id |-> business_id,
         stored |-> FALSE]]

RECURSIVE Dedup(_)
\* a sequence without the later repetitions of its elements
Dedup(seq) ==
    IF seq = <<>> THEN <<>>
    ELSE LET rest == Dedup(SubSeq(seq, 1, Len(seq) - 1))
             last == seq[Len(seq)]
         IN  IF \E i \in DOMAIN rest : rest[i] = last THEN rest ELSE Append(rest, last)

\* a grouping query without the cutoff filter
LatestReadingsOfAllTime(business_id, cutoff_time) ==
    LET mine == SelectSeq(sensor_readings, LAMBDA r : r.business_id = business_id)
        MaxTimestamp(sensor_id) ==
            CHOOSE t \in {mine[i].timestamp : i \in DOMAIN mine} :
                /\ \E i \in DOMAIN mine : mine[i].sensor_id = sensor_id /\ mine[i].timestamp = t
                /\ \A i \in DOMAIN mine : mine[i].sensor_id = sensor_id => mine[i].timestamp <= t
    IN  Dedup([i \in DOMAIN mine |-> <<mine[i].sensor_id, MaxTimestamp(mine[i].sensor_id)>>])

\* query(sensor_id, func.max(timestamp)).filter(business_id == ..., timestamp >= cutoff)
\*     .group_by(sensor_id)
LatestReadings(business_id, cutoff_time) ==
    LET mine == SelectSeq(sensor_readings, LAMBDA r :
                    r.business_id = business_id /\ r.timestamp >= cutoff_time)
        MaxTimestamp(sensor_id) ==
            CHOOSE t \in {mine[i].timestamp : i \in DOMAIN mine} :
                /\ \E i \in DOMAIN mine : mine[i].sensor_id = sensor_id /\ mine[i].timestamp = t
                /\ \A i \in DOMAIN mine : mine[i].sensor_id = sensor_id => mine[i].timestamp <= t
    IN  Dedup([i \in DOMAIN mine |-> <<mine[i].sensor_id, MaxTimestamp(mine[i].sensor_id)>>])

\* query(SensorReading).filter(sensor_id == ..., timestamp == ...): the rows .first()
\* can return
FirstCandidates(sensor_id, max_timestamp) ==
    {sensor_readings[i] : i \in {j \in DOMAIN sensor_readings :
        /\ sensor_readings[j].sensor_id = sensor_id
        /\ sensor_readings[j].timestamp = max_timestamp}}

RECURSIVE ReadingLists(_)
\* the lists the loop over latest_readings can build
ReadingLists(latest_readings) ==
    IF latest_readings = <<>> THEN {<<>>}
    ELSE LET g == Head(latest_readings)
         IN  {<<[sensor_id |-> reading.sensor_id,
                 sensor_type |-> reading.sensor_type,
                 status |-> reading.status,
                 timestamp |-> reading.timestamp,
                 business_id |-> reading.business_id,
                 stored |-> TRUE]>> \o rest :
                  reading \in FirstCandidates(g[1], g[2]),
                  rest \in ReadingLists(Tail(latest_readings))}

\* GET /sensors/readings
get_sensor_readings(business_id, hours) ==
    LET cutoff_time == now - hours
        latest_readings == LatestReadings(business_id, cutoff_time)
        outcomes == IF latest_readings = <<>>
                    THEN {generate_mock_sensor_data(business_id, now, statuses, minutes) :
                              statuses \in StatusProfiles, minutes \in MockMinutes}
                    ELSE ReadingLists(latest_readings)
    IN  /\ \E sensors \in outcomes :
              response' = [op |-> "readings",
                           business_id |-> business_id,
                           hours |-> hours,
                           sensors |-> sensors]
        /\ UNCHANGED <<now, storage, seeded_status, insurance, call, records, serial, result, sessions>>

\* a business without readings of the last 24 hours and without recommendations
NoRealData(business_id) ==
    /\ ~\E i \in DOMAIN sensor_readings :
           /\ sensor_readings[i].business_id = business_id
           /\ sensor_readings[i].timestamp >= now - 24
    /\ ~\E i \in DOMAIN recommendation_tracking :
           recommendation_tracking[i].business_id = business_id

\* the draws a computation for these businesses consumes: none where stored data exists
DrawsFor(business_ids) == [{b \in business_ids : NoRealData(b)} -> MockDraws]

NoDraw == [statuses |-> <<>>, followed |-> 0]

DrawOf(draws, business_id) ==
    IF business_id \in DOMAIN draws THEN draws[business_id] ELSE NoDraw

StatusOnly(readings) == [i \in DOMAIN readings |-> [status |-> readings[i].status]]

\* The computation get_compliance_score and get_business_ranking both make for one
\* business: the compliance dict and the counts the handler holds afterwards.
RecentCompliance(readings, business_id, draw) ==
    LET cutoff_time == now - 24
        recent_readings == SelectSeq(readings, LAMBDA r :
                               r.business_id = business_id /\ r.timestamp >= cutoff_time)
        recommendations == Rows(recommendation_tracking, business_id)
    IN  IF recent_readings = <<>> /\ recommendations = <<>>
        THEN [compliance |->
                  calculate_compliance_score(
                      StatusOnly(generate_mock_sensor_data(business_id, now, draw.statuses, 0)),
                      draw.followed, 22),
              recommendations_followed |-> draw.followed,
              recommendations_total |-> 22]
        ELSE [compliance |->
                  calculate_compliance_score(StatusOnly(recent_readings),
                                             Implemented(recommendations),
                                             Len(recommendations)),
              recommendations_followed |-> Implemented(recommendations),
              recommendations_total |-> Len(recommendations)]

\* the computation over the stored readings
RealTimeCompliance(business_id, draw) == RecentCompliance(sensor_readings, business_id, draw)

\* GET /sensors/compliance
get_compliance_score(business_id) ==
    /\ \E draws \in DrawsFor({business_id}) :
          LET compliance == RealTimeCompliance(business_id, DrawOf(draws, business_id)).compliance
          IN  response' = [op |-> "compliance",
                           business_id |-> business_id,
                           compliance |-> compliance]
    /\ UNCHANGED <<now, storage, seeded_status, insurance, call, records, serial, result, sessions>>

Reverse(seq) == [i \in DOMAIN seq |-> seq[Len(seq) + 1 - i]]

\* The orders in which a query without ORDER BY may return the rows of a table: any
\* order for a table of at most MaxShuffled rows, insertion order or its reverse for
\* a longer one.
Orderings(seq) ==
    IF Len(seq) <= MaxShuffled
    THEN {p \in [DOMAIN seq -> {seq[i] : i \in DOMAIN seq}] :
             \A x \in {seq[i] : i \in DOMAIN seq} :
                 Cardinality({i \in DOMAIN p : p[i] = x}) =
                 Cardinality({i \in DOMAIN seq : seq[i] = x})}
    ELSE {seq, Reverse(seq)}

Min(a, b) == IF a <= b THEN a ELSE b

RECURSIVE InsertByScoreReversed(_, _)
\* an insertion that puts x in front of the entries of equal score
InsertByScoreReversed(sorted, x) ==
    IF sorted = <<>> THEN <<x>>
    ELSE IF Head(sorted).score > x.score
         THEN <<Head(sorted)>> \o InsertByScoreReversed(Tail(sorted), x)
         ELSE <<x>> \o sorted

RECURSIVE InsertByScore(_, _)
\* where list.sort puts x among entries already in descending order: behind every
\* entry whose score is not lower (the sort is stable, also with reverse=True)
InsertByScore(sorted, x) ==
    IF sorted = <<>> THEN <<x>>
    ELSE IF Head(sorted).score >= x.score
         THEN <<Head(sorted)>> \o InsertByScore(Tail(sorted), x)
         ELSE <<x>> \o sorted

RECURSIVE SortByScoreDesc(_)
\* list.sort(key=lambda x: x["score"], reverse=True)
SortByScoreDesc(list) ==
    IF list = <<>> THEN <<>>
    ELSE InsertByScore(SortByScoreDesc(SubSeq(list, 1, Len(list) - 1)), list[Len(list)])

RECURSIVE AssignRanks(_)
\* for i, biz_data in enumerate(business_scores, 1): biz_data["rank"] = i
AssignRanks(list) ==
    IF list = <<>> THEN <<>>
    ELSE Append(AssignRanks(SubSeq(list, 1, Len(list) - 1)),
                [list[Len(list)] EXCEPT !.rank = Len(list)])

\* the entry the loop over all_businesses appends for one business
BusinessScore(business, draws) ==
    LET computed == RealTimeCompliance(business.business_id,
                                       DrawOf(draws, business.business_id))
    IN  [business_id |-> business.business_id,
         business_name |-> business.name,
         score |-> computed.compliance.overall_score,
         rank_level |-> computed.compliance.rank,
         recommendations_followed |-> computed.recommendations_followed,
         recommendations_total |-> computed.recommendations_total,
         rank |-> 0]

RECURSIVE BusinessScores(_, _)
BusinessScores(all_businesses, draws) ==
    IF all_businesses = <<>> THEN <<>>
    ELSE Append(BusinessScores(SubSeq(all_businesses, 1, Len(all_businesses) - 1), draws),
                BusinessScore(all_businesses[Len(all_businesses)], draws))

Entry(biz_data) ==
    [rank |-> biz_data.rank,
     business_name |-> biz_data.business_name,
     score |-> biz_data.score,
     rank_level |-> biz_data.rank_level,
     recommendations_followed |-> biz_data.recommendations_followed,
     recommendations_total |-> biz_data.recommendations_total]

None == [none |-> TRUE]

\* a loop that appends every entry to rankings, the caller's own included
AllBusinesses(business_scores, user_business_id) == business_scores

\* the entries the loop over business_scores appends to rankings: all but the one of
\* the caller's business, if the caller has one
OtherBusinesses(business_scores, user_business_id) ==
    SelectSeq(business_scores, LAMBDA biz_data :
        ~(user_business_id # NoBusinessId /\ biz_data.business_id = user_business_id))

\* GET /sensors/compliance/ranking
get_business_ranking(user_business_id, limit) ==
    /\ \E stored_order \in Orderings(businesses),
          draws \in DrawsFor(BusinessIds) :
          LET all_businesses == SubSeq(stored_order, 1, Min(limit + 5, Len(stored_order)))
              business_scores ==
                  AssignRanks(SortByScoreDesc(BusinessScores(all_businesses, draws)))
              IsOwn(biz_data) == user_business_id # NoBusinessId
                                     /\ biz_data.business_id = user_business_id
              own == SelectSeq(business_scores, IsOwn)
              others == OtherBusinesses(business_scores, user_business_id)
              rankings == [i \in 1..Min(limit, Len(others)) |-> Entry(others[i])]
              user_compliance == RealTimeCompliance(user_business_id, DrawOf(draws, user_business_id))
              user_business == SelectSeq(businesses, LAMBDA b :
                                   b.business_id = user_business_id)
              user_score == user_compliance.compliance.overall_score
              separately ==
                  [rank |-> Cardinality({i \in DOMAIN business_scores :
                                            business_scores[i].score > user_score}) + 1,
                   business_name |-> IF user_business # <<>> THEN user_business[1].name
                                     ELSE user_business_id,
                   score |-> user_score,
                   rank_level |-> user_compliance.compliance.rank,
                   recommendations_followed |-> user_compliance.recommendations_followed,
                   recommendations_total |-> user_compliance.recommendations_total]
              your_business ==
                  IF user_business_id = NoBusinessId THEN None
                  ELSE IF own # <<>> THEN Entry(own[Len(own)])
                  ELSE separately
          IN  response' = [op |-> "ranking",
                           user_business_id |-> user_business_id,
                           limit |-> limit,
                           all_businesses |-> all_businesses,
                           business_scores |-> business_scores,
                           rankings |-> rankings,
                           your_business |-> your_business]
    /\ UNCHANGED <<now, storage, seeded_status, insurance, call, records, serial, result, sessions>>


(***************************************************************************)
(* routers/insurance.py: the insurer's policies and portfolio.             *)
(***************************************************************************)
\* an Optional argument or field: <<>> for None, <<x>> for the value x
Nothing == <<>>
Some(x) == <<x>>

\* Python truthiness of an Optional number: None and 0 are falsy
TruthyNumber(optional) == optional # Nothing /\ optional[1] # 0

\* Python truthiness of an Optional string: None and "" are falsy
TruthyString(optional) == optional # Nothing /\ optional[1] # ""

\* constants.py
DEMO_SENSOR_HOURS == 8760
DEMO_BUSINESS_NAMES == {DEMO_BUSINESSES[k].name : k \in DOMAIN DEMO_BUSINESSES}

\* user_id of Insurance users whose insurance_company_id was never set
LegacyInsurerIds == {2}

\* the insurers a registration request may name
InsurerChoices == {DefaultCompany} \cup LegacyInsurerIds

\* the users get_current_admin_user admits
CurrentUsers ==
    {[role |-> "Admin", user_id |-> 1, insurance_company_id |-> NoCompany]}
        \cup {[role |-> "Insurance", user_id |-> u, insurance_company_id |-> NoCompany] :
                  u \in LegacyInsurerIds}
        \cup {[role |-> "Insurance", user_id |-> 3, insurance_company_id |-> c] :
                  c \in insurance_companies}

get_insurance_company_id(current_user) ==
    IF current_user.role = "Insurance"
    THEN IF current_user.insurance_company_id # NoCompany
         THEN current_user.insurance_company_id
         ELSE current_user.user_id
    ELSE DefaultCompany

\* the rows get_insurance_company_id leaves in insurance_companies
CompaniesAfter(current_user) ==
    IF current_user.role = "Insurance" /\ current_user.insurance_company_id # NoCompany
    THEN insurance_companies
    ELSE insurance_companies \cup {get_insurance_company_id(current_user)}

ScoreForBusiness(readings, business) ==
    LET hours == IF business.name \in DEMO_BUSINESS_NAMES THEN DEMO_SENSOR_HOURS ELSE 24
        sensors_data == get_latest_sensors_for_business(readings, business.business_id,
                                                        hours, now)
        recommendations == Rows(recommendation_tracking, business.business_id)
    IN  calculate_compliance_score(sensors_data, Implemented(recommendations),
                                   Len(recommendations))

\* the score of the business over the stored readings
calculate_compliance_score_for_business(business) ==
    ScoreForBusiness(sensor_readings, business)

\* a tier that is one step too lenient at the boundaries
RiskOfExclusive(score) ==
    IF score > 90 THEN "Low"
    ELSE IF score > 75 THEN "Medium"
    ELSE IF score > 60 THEN "High"
    ELSE "Critical"

\* risk level from compliance score
RiskOf(score) ==
    IF score >= 90 THEN "Low"
    ELSE IF score >= 75 THEN "Medium"
    ELSE IF score >= 60 THEN "High"
    ELSE "Critical"

\* a lookup that never finds a policy
NoPolicy(insurance_company_id, business_id) == {}

\* get_policy_for_business: the policies the loop over all_policies can return first
MatchingPolicies(insurance_company_id, business_id) ==
    {i \in DOMAIN policies :
        /\ policies[i].insurance_company_id = insurance_company_id
        /\ policies[i].business_id = business_id}

\* one choice of the policy found for each business: 0 where none matches
PolicyChoices(insurance_company_id) ==
    {f \in [BusinessIds -> 0..Len(policies)] :
        \A b \in BusinessIds :
            IF MatchingPolicies(insurance_company_id, b) = {}
            THEN f[b] = 0
            ELSE f[b] \in MatchingPolicies(insurance_company_id, b)}

\* a score below the threshold or equal to it
AtOrBelow(score, threshold) == score <= threshold

\* score < policy_threshold
Below(score, threshold) == score < threshold

\* the portfolio entry of one business
PortfolioEntry(business, policy) ==
    LET compliance == calculate_compliance_score_for_business(business)
        score == compliance.overall_score
        policy_threshold == IF policy = 0 THEN Nothing
                            ELSE Some(policies[policy].compliance_threshold)
    IN  [business_id |-> business.business_id,
         business_name |-> business.name,
         store_type |-> business.store_type,
         compliance_score |-> score,
         rank_level |-> compliance.rank,
         risk_level |-> RiskOf(score),
         policy_threshold |-> policy_threshold,
         policy_violated |-> policy_threshold # Nothing /\ Below(score, policy_threshold[1])]

\* the filters of the loop: TRUE when the entry is kept
Kept(entry, risk_level, min_score, max_score) ==
    /\ ~(TruthyString(risk_level) /\ entry.risk_level # risk_level[1])
    /\ ~(TruthyNumber(min_score) /\ entry.compliance_score < min_score[1])
    /\ ~(TruthyNumber(max_score) /\ entry.compliance_score > max_score[1])

RECURSIVE PortfolioEntries(_, _, _, _, _)
PortfolioEntries(rows, choice, risk_level, min_score, max_score) ==
    IF rows = <<>> THEN <<>>
    ELSE LET rest == PortfolioEntries(SubSeq(rows, 1, Len(rows) - 1), choice,
                                      risk_level, min_score, max_score)
             entry == PortfolioEntry(rows[Len(rows)], choice[rows[Len(rows)].business_id])
         IN  IF Kept(entry, risk_level, min_score, max_score)
             THEN Append(rest, entry) ELSE rest

RECURSIVE InsertByComplianceScore(_, _)
InsertByComplianceScore(sorted, x) ==
    IF sorted = <<>> THEN <<x>>
    ELSE IF Head(sorted).compliance_score >= x.compliance_score
         THEN <<Head(sorted)>> \o InsertByComplianceScore(Tail(sorted), x)
         ELSE <<x>> \o sorted

RECURSIVE SortPortfolio(_)
\* portfolio.sort(key=lambda x: x["compliance_score"], reverse=True)
SortPortfolio(list) ==
    IF list = <<>> THEN <<>>
    ELSE InsertByComplianceScore(SortPortfolio(SubSeq(list, 1, Len(list) - 1)),
                                 list[Len(list)])

\* a query that leaves out the filter by insurance company
AnyBusiness(business, current_user) == TRUE

\* the businesses the query of the portfolio selects for the caller
InScope(business, current_user) ==
    current_user.role # "Admin" =>
        business.insurance_company_id = get_insurance_company_id(current_user)

\* GET /insurance/portfolio
get_business_portfolio(current_user, risk_level, store_type, min_score, max_score) ==
    LET insurance_company_id == get_insurance_company_id(current_user)
    IN  /\ \E stored_order \in Orderings(businesses),
              choice \in PolicyChoices(insurance_company_id) :
              LET rows == SelectSeq(stored_order, LAMBDA b :
                              /\ InScope(b, current_user)
                              /\ (TruthyString(store_type) => b.store_type = store_type[1]))
                  portfolio == SortPortfolio(PortfolioEntries(rows, choice, risk_level,
                                                              min_score, max_score))
              IN  response' =
                      [op |-> "portfolio",
                       current_user |-> current_user,
                       risk_level |-> risk_level,
                       store_type |-> store_type,
                       min_score |-> min_score,
                       max_score |-> max_score,
                       businesses |-> portfolio,
                       total |-> Len(portfolio),
                       violations_count |->
                           Cardinality({i \in DOMAIN portfolio : portfolio[i].policy_violated})]
        /\ insurance_companies' = CompaniesAfter(current_user)
        /\ UNCHANGED <<now, storage, seeded_status, policies, call, records, serial, result, sessions>>

\* fewer than max policies were created through POST /insurance/policies and are left,
\* and the policy_id sequence is not exhausted
Room(max) ==
    /\ Cardinality({i \in DOMAIN policies : policies[i].requirements = "null"}) < max
    /\ serial.policy_id < max + Len(DefaultThresholds)

\* POST /insurance/policies
create_policy(current_user, business_id, store_type, compliance_threshold) ==
    LET insurance_company_id == get_insurance_company_id(current_user)
        effective_company_id == IF insurance_company_id > 0 THEN insurance_company_id
                                ELSE DefaultCompany
        policy == [policy_id |-> serial.policy_id + 1,
                   insurance_company_id |-> effective_company_id,
                   business_id |-> business_id,
                   store_type |-> store_type,
                   compliance_threshold |-> compliance_threshold,
                   requirements |-> "null"]
        unknown == business_id # NoBusinessId /\ business_id \notin BusinessIds
        existing == IF business_id # NoBusinessId
                    THEN MatchingPolicies(effective_company_id, business_id)
                    ELSE {}
    IN  /\ insurance_companies' = CompaniesAfter(current_user)
        /\ IF unknown
           THEN /\ response' = [op |-> "create_policy", status |-> 404]
                /\ UNCHANGED <<policies, serial>>
           ELSE IF existing # {}
           THEN /\ response' = [op |-> "create_policy", status |-> 409]
                /\ UNCHANGED <<policies, serial>>
           ELSE /\ response' = [op |-> "create_policy", status |-> 200, policy |-> policy]
                /\ policies' = Append(policies, policy)
                /\ serial' = [serial EXCEPT !.policy_id = @ + 1]
        /\ UNCHANGED <<now, storage, seeded_status, call, records, result, sessions>>

\* the arguments the model gives the portfolio and policy handlers
Thresholds == {75, 86}
RiskFilters == {Nothing, Some("Critical")}
StoreTypeFilters == {Nothing, Some("winery")}
MinScoreFilters == {Nothing, Some(0), Some(60)}
MaxScoreFilters == {Nothing, Some(0)}

(***************************************************************************)
(* Ranking rebuilds in concurrent sessions: daily_sensor_generation.py,    *)
(* routers/auth.py and demo_sensor_device.py.  A session's queries see the *)
(* committed tables; its rows reach the tables at its commit.              *)
(***************************************************************************)
\* demo_sensor_device.calculate_compliance_score: 60% share of normal readings of the
\* last 24 hours, 40% share of implemented recommendations (100 without any), the
\* overall score rounded to one decimal
device_calculate_compliance_score(readings, recommendations, business_id, at) ==
    LET recent_readings == SelectSeq(readings, LAMBDA r :
                               r.business_id = business_id /\ r.timestamp >= at - 24)
        total_readings == Len(recent_readings)
        normal_readings == Cardinality({i \in DOMAIN recent_readings :
                                           recent_readings[i].status = "normal"})
        mine == Rows(recommendations, business_id)
        total_recommendations == Len(mine)
        implemented_recommendations == Implemented(mine)
        rnum == IF total_recommendations > 0 THEN implemented_recommendations ELSE 1
        rden == IF total_recommendations > 0 THEN total_recommendations ELSE 1
        \* overall_score = num / den
        num == 60 * normal_readings * rden + 40 * rnum * total_readings
        den == total_readings * rden
    IN  IF recent_readings = <<>>
        THEN [overall_score |-> 0,
              rank |-> "Needs Improvement",
              recommendations_followed |-> 0,
              recommendations_total |-> 0]
        ELSE [overall_score |-> (20 * num + den) \div (2 * den),
              rank |-> IF num >= 90 * den THEN "Excellent"
                       ELSE IF num >= 75 * den THEN "Good"
                       ELSE IF num >= 60 * den THEN "Fair"
                       ELSE "Needs Improvement",
              recommendations_followed |-> implemented_recommendations,
              recommendations_total |-> total_recommendations]

\* the positions of the rows of a business in the ranking table
RankingRows(rankings, business_id) ==
    {i \in DOMAIN rankings : rankings[i].business_id = business_id}

FirstOf(positions) == CHOOSE i \in positions : \A j \in positions : i <= j

\* demo_sensor_device.update_business_ranking, one pass of its loop on the rows the
\* session's queries see
device_update_business_ranking_row(readings, recommendations, rankings, business_id, rank, at) ==
    LET biz_compliance == device_calculate_compliance_score(readings, recommendations,
                                                            business_id, at)
        ranking == [business_id |-> business_id,
                    overall_score |-> biz_compliance.overall_score,
                    rank |-> rank,
                    rank_level |-> biz_compliance.rank,
                    recommendations_followed |-> biz_compliance.recommendations_followed,
                    recommendations_total |-> biz_compliance.recommendations_total]
        existing == RankingRows(rankings, business_id)
    IN  IF existing # {} THEN [rankings EXCEPT ![FirstOf(existing)] = ranking]
        ELSE Append(rankings, ranking)

\* The write a session holds until its commit, from the table its query saw and the
\* table as the upsert would leave it.
PendingWrite(before, after, business_id) ==
    IF RankingRows(before, business_id) # {}
    THEN [kind |-> "update",
          loaded |-> before[FirstOf(RankingRows(before, business_id))],
          values |-> after[FirstOf(RankingRows(before, business_id))]]
    ELSE [kind |-> "insert", loaded |-> after[Len(after)], values |-> after[Len(after)]]

\* the row an UPDATE leaves: it sets the attributes that differ from the loaded ones
Updated(current, write) ==
    LET Set(f) == IF write.values[f] # write.loaded[f] THEN write.values[f] ELSE current[f]
    IN  [business_id |-> current.business_id,
         overall_score |-> Set("overall_score"),
         rank |-> Set("rank"),
         rank_level |-> Set("rank_level"),
         recommendations_followed |-> Set("recommendations_followed"),
         recommendations_total |-> Set("recommendations_total")]

\* a table that accepts a second row of a business
NoConstraint(rankings, business_id) == FALSE

\* BusinessRanking.business_id is unique: the INSERT of a second row of a business
\* raises IntegrityError
UniqueViolation(rankings, business_id) == RankingRows(rankings, business_id) # {}

Rejected(rankings, writes) ==
    \E k \in DOMAIN writes :
        /\ writes[k].kind = "insert"
        /\ UniqueViolation(rankings, writes[k].values.business_id)

RECURSIVE Flush(_, _)
\* the ranking table after the session's writes
Flush(rankings, writes) ==
    IF writes = <<>> THEN rankings
    ELSE LET write == Head(writes)
             rows == RankingRows(rankings, write.values.business_id)
         IN  Flush(IF write.kind = "insert" THEN Append(rankings, write.values)
                   ELSE IF rows = {} THEN rankings
                   ELSE [rankings EXCEPT ![FirstOf(rows)] = Updated(@, write)],
                   Tail(writes))

\* db.commit(): the flush of the session's rows and the commit, or the rollback of
\* all of them when an INSERT is rejected
Commit(s, op) ==
    /\ IF Rejected(business_rankings, sessions[s].writes)
       THEN /\ response' = [op |-> op, status |-> "IntegrityError"]
            /\ UNCHANGED <<sensor_readings, recommendation_tracking, business_rankings>>
       ELSE /\ response' = [op |-> op, status |-> "committed"]
            /\ sensor_readings' = sensor_readings \o sessions[s].readings
            /\ recommendation_tracking' =
                   recommendation_tracking \o sessions[s].recommendations
            /\ business_rankings' = Flush(business_rankings, sessions[s].writes)
    /\ sessions' = [sessions EXCEPT ![s] = [NoSession EXCEPT !.runs = sessions[s].runs + 1]]
    /\ UNCHANGED <<now, businesses, seeded_status, insurance, call, records, serial, result>>

\* run_daily_sensor_generation: the query of the businesses and the readings of the run
daily_begin ==
    LET ids == {businesses[i].business_id : i \in DOMAIN businesses}
    IN  /\ sessions["daily"].pc = "idle"
        /\ sessions["daily"].runs < MaxRebuilds
        /\ businesses # <<>>
        /\ \E profiles \in [ids -> StatusProfiles] :
              /\ \A b \in ids : profiles[b] \in ProfilesFor(b, now)
              /\ seeded_status' =
                     [k \in DOMAIN seeded_status \cup {<<b, DateStr(now)>> : b \in ids}
                         |-> IF k \in DOMAIN seeded_status THEN seeded_status[k]
                             ELSE profiles[k[1]]]
              /\ sessions' = [sessions EXCEPT !["daily"] =
                     [@ EXCEPT !.pc = "rebuilding",
                               !.todo = businesses,
                               !.readings = GenerateAll(businesses, now, profiles)]]
        /\ UNCHANGED <<now, storage, insurance, response, call, records, serial, result>>

\* run_daily_sensor_generation: _update_business_ranking for the next business
daily_check ==
    LET t == sessions["daily"]
        business == Head(t.todo)
        after == update_business_ranking_row(sensor_readings, recommendation_tracking,
                                             business_rankings, business, now)
    IN  /\ t.pc = "rebuilding"
        /\ t.todo # <<>>
        /\ sessions' = [sessions EXCEPT !["daily"] =
               [@ EXCEPT !.todo = Tail(t.todo),
                         !.writes = Append(t.writes,
                             PendingWrite(business_rankings, after, business.business_id))]]
        /\ UNCHANGED <<now, storage, seeded_status, insurance, response, call, records, serial, result>>

\* run_daily_sensor_generation: db.commit()
daily_commit ==
    /\ sessions["daily"].pc = "rebuilding"
    /\ sessions["daily"].todo = <<>>
    /\ Commit("daily", "run_daily_sensor_generation")

\* register, after the commit of the business: generate_initial_compliance_data
seeding_check ==
    LET t == sessions["register"]
    IN  /\ t.pc = "idle"
        /\ t.runs = 0
        /\ \E i \in DOMAIN businesses :
              LET business == businesses[i]
              IN  /\ business.name \notin DEMO_BUSINESS_NAMES
                  /\ \E profile \in ProfilesFor(business.business_id, now) :
                        LET readings == generate_sensor_readings_for_business(business, now,
                                                                              profile)
                            recommendations == InitialRecommendations(business.business_id)
                            \* db.flush(): the session's queries see its own new rows
                            after == update_business_ranking_row(
                                         sensor_readings \o readings,
                                         recommendation_tracking \o recommendations,
                                         business_rankings, business, now)
                        IN  /\ seeded_status' =
                                   [k \in DOMAIN seeded_status
                                              \cup {<<business.business_id, DateStr(now)>>}
                                       |-> IF k \in DOMAIN seeded_status THEN seeded_status[k]
                                           ELSE profile]
                            /\ sessions' = [sessions EXCEPT !["register"] =
                                   [@ EXCEPT !.pc = "flushed",
                                             !.readings = readings,
                                             !.recommendations = recommendations,
                                             !.writes = <<PendingWrite(business_rankings, after,
                                                              business.business_id)>>]]
        /\ UNCHANGED <<now, storage, insurance, response, call, records, serial, result>>

\* register: db.commit() after generate_initial_compliance_data
seeding_commit ==
    /\ sessions["register"].pc = "flushed"
    /\ Commit("register", "register")

\* demo_sensor_device.update_business_ranking: the scores of all businesses, sorted
device_begin ==
    /\ sessions["device"].pc = "idle"
    /\ sessions["device"].runs < MaxRebuilds
    /\ businesses # <<>>
    /\ \E all_businesses \in Orderings(businesses) :
          LET RECURSIVE Scores(_)
              Scores(bs) ==
                  IF bs = <<>> THEN <<>>
                  ELSE Append(Scores(SubSeq(bs, 1, Len(bs) - 1)),
                              [business_id |-> bs[Len(bs)].business_id,
                               score |-> device_calculate_compliance_score(
                                             sensor_readings, recommendation_tracking,
                                             bs[Len(bs)].business_id, now).overall_score,
                               rank |-> 0])
          IN  sessions' = [sessions EXCEPT !["device"] =
                  [@ EXCEPT !.pc = "rebuilding",
                            !.todo = AssignRanks(SortByScoreDesc(Scores(all_businesses)))]]
    /\ UNCHANGED <<now, storage, seeded_status, insurance, response, call, records, serial, result>>

\* demo_sensor_device.update_business_ranking: one pass of the loop over the scores
device_check ==
    LET t == sessions["device"]
        biz_data == Head(t.todo)
        after == device_update_business_ranking_row(sensor_readings, recommendation_tracking,
                                                    business_rankings, biz_data.business_id,
                                                    biz_data.rank, now)
    IN  /\ t.pc = "rebuilding"
        /\ t.todo # <<>>
        /\ sessions' = [sessions EXCEPT !["device"] =
               [@ EXCEPT !.todo = Tail(t.todo),
                         !.writes = Append(t.writes,
                             PendingWrite(business_rankings, after, biz_data.business_id))]]
        /\ UNCHANGED <<now, storage, seeded_status, insurance, response, call, records, serial, result>>

\* demo_sensor_device.update_business_ranking: db.commit()
device_commit ==
    /\ sessions["device"].pc = "rebuilding"
    /\ sessions["device"].todo = <<>>
    /\ Commit("device", "update_business_ranking")

(***************************************************************************)
(* routers/insurance.py: the comparison of businesses with its trend.      *)
(***************************************************************************)
\* values of random.uniform(-5, 5), in tenths of a point
Variations == {-50, 0, 50}

\* The variations one request draws for the seven days of a trend (of all draws,
\* those in which the six earlier days drew alike).
TrendDraws == {d \in [1..7 -> Variations] : \A i \in 1..6 : d[i] = d[1]}

Max(a, b) == IF a >= b THEN a ELSE b

\* the trend of one business: round(max(0, min(100, base_score + variation)), 1) for
\* each of the seven days, scores in tenths
TrendData(base_score, draw, at) ==
    LET RECURSIVE Days(_)
        Days(i) == IF i = 0 THEN <<>>
                   ELSE Append(Days(i - 1),
                               [date |-> at - 24 * (7 - i),
                                score |-> Max(0, Min(1000, Tenths(base_score) + draw[i]))])
    IN  Days(7)

RECURSIVE Comparison(_, _)
Comparison(rows, draws) ==
    IF rows = <<>> THEN <<>>
    ELSE LET business == rows[Len(rows)]
             compliance == calculate_compliance_score_for_business(business)
         IN  Append(Comparison(SubSeq(rows, 1, Len(rows) - 1), draws),
                    [business_id |-> business.business_id,
                     business_name |-> business.name,
                     store_type |-> business.store_type,
                     current_score |-> compliance.overall_score,
                     rank_level |-> compliance.rank,
                     recommendations_followed |-> compliance.recommendations_followed,
                     recommendations_total |-> compliance.recommendations_total,
                     trend |-> TrendData(compliance.overall_score,
                                         draws[business.business_id], now)])

\* GET /insurance/compare
compare_businesses(ids) ==
    /\ \E stored_order \in Orderings(businesses) :
          LET rows == SelectSeq(stored_order, LAMBDA b : b.business_id \in ids)
              found == {rows[i].business_id : i \in DOMAIN rows}
          IN  \E draws \in [found -> TrendDraws] :
                  response' = [op |-> "compare",
                               ids |-> ids,
                               comparison |-> Comparison(rows, draws)]
    /\ UNCHANGED <<now, storage, seeded_status, insurance, call, records, serial, result, sessions>>


(***************************************************************************)
(* Notes, risk assessments, claims, policy edits, violation warnings and   *)
(* account deletion: routers/insurance.py and routers/users.py.            *)
(***************************************************************************)

\* rows of each table the model lets exist at once
MaxNotes == 1
MaxAssessments == 1
MaxClaims == 2
MaxEmails == 1

\* the Admin of CurrentUsers
Admins == {u \in CurrentUsers : u.role = "Admin"}

\* insurance_company_id if insurance_company_id > 0 else 1
EffectiveCompany(current_user) ==
    IF get_insurance_company_id(current_user) > 0
    THEN get_insurance_company_id(current_user)
    ELSE DefaultCompany

\* POST /insurance/notes
create_business_note(current_user, business_id) ==
    /\ Len(business_notes) < MaxNotes
    /\ insurance_companies' = CompaniesAfter(current_user)
    /\ IF business_id \notin BusinessIds
       THEN /\ response' = [op |-> "create_business_note", status |-> 404]
            /\ UNCHANGED business_notes
       ELSE /\ response' = [op |-> "create_business_note", status |-> 200,
                            business_id |-> business_id]
            /\ business_notes' =
                   Append(business_notes,
                          [business_id |-> business_id,
                           insurance_company_id |-> get_insurance_company_id(current_user),
                           created_by_user_id |-> current_user.user_id])
    /\ UNCHANGED <<now, storage, seeded_status, policies, call, result, sessions, users,
                   risk_assessments, claims, email_logs, notifications, serial>>

\* POST /insurance/risk-assessments
create_risk_assessment(current_user, business_id) ==
    /\ Len(risk_assessments) < MaxAssessments
    /\ insurance_companies' = CompaniesAfter(current_user)
    /\ IF business_id \notin BusinessIds
       THEN /\ response' = [op |-> "create_risk_assessment", status |-> 404]
            /\ UNCHANGED risk_assessments
       ELSE LET business == Rows(businesses, business_id)[1]
                compliance == calculate_compliance_score_for_business(business)
            IN  /\ response' = [op |-> "create_risk_assessment", status |-> 200,
                                business_id |-> business_id,
                                compliance_score |-> compliance.overall_score]
                /\ risk_assessments' =
                       Append(risk_assessments,
                              [business_id |-> business_id,
                               insurance_company_id |-> EffectiveCompany(current_user),
                               compliance_score |-> compliance.overall_score,
                               created_by_user_id |-> current_user.user_id])
    /\ UNCHANGED <<now, storage, seeded_status, policies, call, result, sessions, users,
                   business_notes, claims, email_logs, notifications, serial>>

\* f"CLM-{year}-{str(claim_count + 1).zfill(6)}": the year does not change in MaxDays days,
\* so the number is the sequence part
ClaimNumber(claim_count) == claim_count + 1

\* a unique column that is not enforced
NeverTaken(claim_number) == FALSE

\* claims.claim_number is unique: the INSERT of a number a row holds is rejected
NumberTaken(claim_number) ==
    \E i \in DOMAIN claims : claims[i].claim_number = claim_number

\* POST /insurance/claims
create_claim(current_user, business_id) ==
    /\ Len(claims) < MaxClaims
    /\ insurance_companies' = CompaniesAfter(current_user)
    /\ IF business_id \notin BusinessIds
       THEN /\ response' = [op |-> "create_claim", status |-> 404]
            /\ UNCHANGED claims
       ELSE LET business == Rows(businesses, business_id)[1]
                compliance == calculate_compliance_score_for_business(business)
                claim_count == Len(claims)
                claim == [business_id |-> business_id,
                          insurance_company_id |-> EffectiveCompany(current_user),
                          claim_number |-> ClaimNumber(claim_count),
                          compliance_score_at_incident |-> compliance.overall_score]
            IN  IF NumberTaken(claim.claim_number)
                THEN /\ response' = [op |-> "create_claim", status |-> 500,
                                     claim_number |-> claim.claim_number]
                     /\ UNCHANGED claims
                ELSE /\ response' = [op |-> "create_claim", status |-> 200,
                                     claim_number |-> claim.claim_number]
                     /\ claims' = Append(claims, claim)
    /\ UNCHANGED <<now, storage, seeded_status, policies, call, result, sessions, users,
                   business_notes, risk_assessments, email_logs, notifications, serial>>

\* the positions of the policy with this policy_id
PolicyAt(policy_id) == {i \in DOMAIN policies : policies[i].policy_id = policy_id}

\* current_user.role != UserRole.ADMIN and policy.insurance_company_id != insurance_company_id
Forbidden(current_user, policy) ==
    /\ current_user.role # "Admin"
    /\ policy.insurance_company_id # get_insurance_company_id(current_user)

\* PUT /insurance/policies/{policy_id}
update_policy(current_user, policy_id, compliance_threshold) ==
    /\ insurance_companies' = CompaniesAfter(current_user)
    /\ IF PolicyAt(policy_id) = {}
       THEN /\ response' = [op |-> "update_policy", status |-> 404]
            /\ UNCHANGED policies
       ELSE LET i == CHOOSE i \in PolicyAt(policy_id) : TRUE
            IN  IF Forbidden(current_user, policies[i])
                THEN /\ response' = [op |-> "update_policy", status |-> 403]
                     /\ UNCHANGED policies
                ELSE /\ policies' = [policies EXCEPT
                                         ![i].compliance_threshold = compliance_threshold]
                     /\ response' = [op |-> "update_policy", status |-> 200,
                                     policy |-> policies'[i]]
    /\ UNCHANGED <<now, storage, seeded_status, call, records, serial, result, sessions>>

\* DELETE /insurance/policies/{policy_id}
delete_policy(current_user, policy_id) ==
    /\ insurance_companies' = CompaniesAfter(current_user)
    /\ IF PolicyAt(policy_id) = {}
       THEN /\ response' = [op |-> "delete_policy", status |-> 404]
            /\ UNCHANGED policies
       ELSE LET i == CHOOSE i \in PolicyAt(policy_id) : TRUE
            IN  IF Forbidden(current_user, policies[i])
                THEN /\ response' = [op |-> "delete_policy", status |-> 403]
                     /\ UNCHANGED policies
                ELSE /\ policies' = SelectSeq(policies, LAMBDA p : p.policy_id # policy_id)
                     /\ response' = [op |-> "delete_policy", status |-> 200,
                                     policy_id |-> policy_id]
    /\ UNCHANGED <<now, storage, seeded_status, call, records, serial, result, sessions>>

\* db.query(User).filter(User.business_id == business.business_id).first()
BusinessUsers(business_id) == SelectSeq(users, LAMBDA u : u.business_id = business_id)

\* a check that lets every score through
NeverCompliant(current_score, compliance_threshold) == FALSE

\* current_score >= policy.compliance_threshold
Compliant(current_score, compliance_threshold) == current_score >= compliance_threshold

\* POST /insurance/notify-violation
notify_violation(current_user, business_id) ==
    LET insurance_company_id == get_insurance_company_id(current_user)
        found == {i \in DOMAIN policies :
                     /\ policies[i].insurance_company_id = insurance_company_id
                     /\ policies[i].business_id = business_id}
    IN  /\ Len(email_logs) < MaxEmails
        /\ insurance_companies' = CompaniesAfter(current_user)
        /\ IF business_id \notin BusinessIds
           THEN /\ response' = [op |-> "notify_violation", status |-> 404]
                /\ UNCHANGED <<email_logs, notifications>>
           ELSE IF found = {}
           THEN /\ response' = [op |-> "notify_violation", status |-> 404]
                /\ UNCHANGED <<email_logs, notifications>>
           ELSE LET business == Rows(businesses, business_id)[1]
                    policy == policies[CHOOSE i \in found : \A j \in found : i <= j]
                    compliance == calculate_compliance_score_for_business(business)
                    current_score == compliance.overall_score
                    business_user == BusinessUsers(business_id)
                IN  IF Compliant(current_score, policy.compliance_threshold)
                    THEN /\ response' = [op |-> "notify_violation", status |-> 400]
                         /\ UNCHANGED <<email_logs, notifications>>
                    ELSE /\ email_logs' =
                                Append(email_logs,
                                       [business_id |-> business_id,
                                        insurance_company_id |-> insurance_company_id,
                                        sent_by_user_id |-> current_user.user_id])
                         /\ notifications' =
                                IF business_user # <<>>
                                THEN Append(notifications,
                                            [user_id |-> business_user[1].user_id,
                                             sender_user_id |-> current_user.user_id])
                                ELSE notifications
                         /\ response' = [op |-> "notify_violation", status |-> 200,
                                         business_id |-> business_id,
                                         current_score |-> current_score,
                                         compliance_threshold |->
                                             policy.compliance_threshold]
        /\ UNCHANGED <<now, storage, seeded_status, policies, call, result, sessions, users,
                       business_notes, risk_assessments, claims, serial>>

\* a delete that removes nothing
AllRows(table, business_id) == table

\* query.filter(Model.business_id == business_id).delete(): the rows that stay
RowsNotOf(table, business_id) == SelectSeq(table, LAMBDA r : r.business_id # business_id)

\* rows of the tables delete_account does not clear that refer to the user or the
\* business; whether they hold foreign keys is a choice of the schema
Referring(current_user) ==
    \/ \E i \in DOMAIN email_logs : email_logs[i].business_id = current_user.business_id
    \/ \E i \in DOMAIN notifications : notifications[i].user_id = current_user.user_id

\* DELETE /users/account, for the user of a business
delete_account(current_user) ==
    LET business_id == current_user.business_id
        business == Rows(businesses, business_id)
    IN  /\ \E i \in DOMAIN users : users[i] = current_user
        /\ \E foreign_keys \in (IF Referring(current_user) THEN BOOLEAN ELSE {FALSE}) :
              IF foreign_keys
              THEN \* except Exception: db.rollback()
                   /\ response' = [op |-> "delete_account", status |-> 500,
                                   current_user |-> current_user]
                   /\ UNCHANGED <<storage, policies, users, business_notes,
                                  risk_assessments, claims>>
              ELSE /\ response' = [op |-> "delete_account", status |-> 200,
                                   current_user |-> current_user]
                   /\ IF business # <<>>
                      THEN /\ sensor_readings' = RowsNotOf(sensor_readings, business_id)
                           /\ recommendation_tracking' =
                                  RowsNotOf(recommendation_tracking, business_id)
                           /\ business_rankings' = RowsNotOf(business_rankings, business_id)
                           /\ business_notes' = RowsNotOf(business_notes, business_id)
                           /\ risk_assessments' = RowsNotOf(risk_assessments, business_id)
                           /\ policies' = RowsNotOf(policies, business_id)
                           /\ claims' = RowsNotOf(claims, business_id)
                           /\ businesses' = RowsNotOf(businesses, business_id)
                      ELSE UNCHANGED <<storage, policies, business_notes,
                                       risk_assessments, claims>>
                   /\ users' = SelectSeq(users, LAMBDA u : u.user_id # current_user.user_id)
        /\ UNCHANGED <<now, seeded_status, insurance_companies, call, result, sessions,
                       email_logs, notifications, serial>>


(***************************************************************************)
(* create_policy as the steps of one request among others: the queries up  *)
(* to the existence check, then db.add and db.commit.  Each request has    *)
(* its own session (database.get_db).                                      *)
(***************************************************************************)

\* insurance.py 544-561: get_insurance_company_id, the business lookup and the check
\* for an existing policy
create_policy_check(s, current_user, business_id, compliance_threshold) ==
    LET insurance_company_id == get_insurance_company_id(current_user)
        effective_company_id == IF insurance_company_id > 0 THEN insurance_company_id
                                ELSE DefaultCompany
        policy == [policy_id |-> 0,
                   insurance_company_id |-> effective_company_id,
                   business_id |-> business_id,
                   store_type |-> NoStoreType,
                   compliance_threshold |-> compliance_threshold,
                   requirements |-> "null"]
    IN  /\ sessions[s].pc = "idle"
        /\ sessions[s].runs = 0
        /\ insurance_companies' = CompaniesAfter(current_user)
        /\ IF business_id \notin BusinessIds
           THEN /\ response' = [op |-> "create_policy", status |-> 404]
                /\ sessions' = [sessions EXCEPT ![s].runs = 1]
           ELSE IF MatchingPolicies(effective_company_id, business_id) # {}
           THEN /\ response' = [op |-> "create_policy", status |-> 409]
                /\ sessions' = [sessions EXCEPT ![s].runs = 1]
           ELSE /\ sessions' = [sessions EXCEPT ![s].pc = "adding",
                                                ![s].writes = <<policy>>]
                /\ UNCHANGED response
        /\ UNCHANGED <<now, storage, seeded_status, policies, call, records, serial, result>>

\* insurance.py 563-572: db.add(policy), db.commit(), db.refresh(policy)
create_policy_commit(s) ==
    LET policy == [sessions[s].writes[1] EXCEPT !.policy_id = serial.policy_id + 1]
    IN  /\ sessions[s].pc = "adding"
        /\ policies' = Append(policies, policy)
        /\ serial' = [serial EXCEPT !.policy_id = @ + 1]
        /\ response' = [op |-> "create_policy", status |-> 200, policy |-> policy]
        /\ sessions' = [sessions EXCEPT ![s].pc = "idle", ![s].writes = <<>>,
                                        ![s].runs = 1]
        /\ UNCHANGED <<now, storage, seeded_status, insurance_companies, call, records,
                       result>>

Init ==
    /\ Idle
    /\ call = NoResult
    /\ result = NoResult

Next ==
    \/ seed_data
    \/ \E store_type \in StoreTypes : register(store_type, NoCompany)
    \/ run_daily_sensor_generation
    \/ Tick
    \/ \E business_id \in BusinessIds, hours \in Hours : get_sensor_readings(business_id, hours)
    \/ \E business_id \in BusinessIds : get_compliance_score(business_id)
    \/ \E user_business_id \in BusinessIds \cup {NoBusinessId}, limit \in Limits :
           get_business_ranking(user_business_id, limit)

Spec == Init /\ [][Next]_vars

\* The reader alone over the changing tables.
NextReadings ==
    \/ seed_data
    \/ \E store_type \in StoreTypes : register(store_type, NoCompany)
    \/ run_daily_sensor_generation
    \/ Tick
    \/ \E business_id \in BusinessIds, hours \in Hours : get_sensor_readings(business_id, hours)

SpecReadings == Init /\ [][NextReadings]_vars

\* The compliance and ranking handlers over the changing tables.
NextRanking ==
    \/ seed_data
    \/ \E store_type \in StoreTypes : register(store_type, NoCompany)
    \/ run_daily_sensor_generation
    \/ Tick
    \/ \E business_id \in BusinessIds : get_compliance_score(business_id)
    \/ \E user_business_id \in BusinessIds \cup {NoBusinessId}, limit \in Limits :
           get_business_ranking(user_business_id, limit)

SpecRanking == Init /\ [][NextRanking]_vars

\* The portfolio with its filters, asked for by the Admin and by the default
\* company's users.
NextPortfolio ==
    \/ seed_data
    \/ \E store_type \in StoreTypes : register(store_type, DefaultCompany)
    \/ \E current_user \in {u \in CurrentUsers : u.user_id \notin LegacyInsurerIds},
           risk_level \in RiskFilters, store_type \in StoreTypeFilters,
           min_score \in MinScoreFilters, max_score \in MaxScoreFilters :
           get_business_portfolio(current_user, risk_level, store_type, min_score, max_score)

SpecPortfolio == Init /\ [][NextPortfolio]_vars

\* The unfiltered portfolio of every user over businesses registered with either
\* insurer and the readings of a daily generation.
NextScope ==
    \/ seed_data
    \/ \E store_type \in StoreTypes, insurance_company_id \in InsurerChoices :
           register(store_type, insurance_company_id)
    \/ run_daily_sensor_generation
    \/ \E current_user \in CurrentUsers :
           get_business_portfolio(current_user, Nothing, Nothing, Nothing, Nothing)

SpecScope == Init /\ [][NextScope]_vars

\* The unfiltered portfolio over the policies the insurers create.
NextPolicy ==
    \/ seed_data
    \/ \E store_type \in StoreTypes : register(store_type, DefaultCompany)
    \/ \E current_user \in CurrentUsers, business_id \in BusinessIds \cup {NoBusinessId},
           store_type \in StoreTypes \cup {NoStoreType}, compliance_threshold \in Thresholds :
           /\ Room(MaxPolicies)
           /\ create_policy(current_user, business_id, store_type, compliance_threshold)
    \/ \E current_user \in CurrentUsers :
           get_business_portfolio(current_user, Nothing, Nothing, Nothing, Nothing)

SpecPolicy == Init /\ [][NextPolicy]_vars

\* The whole demo fleet: the tables after seed_data created the six demo businesses
\* and one daily generation ran for them at time 0 (of the status profiles the
\* generation can draw, those in which businesses k and k + 3 drew alike).
InitFleet ==
    /\ now = 0
    /\ serial = [NoSerial EXCEPT !.business_id = Len(DEMO_BUSINESSES), !.policy_id = 3]
    /\ users = <<>>
    /\ business_notes = <<>>
    /\ risk_assessments = <<>>
    /\ claims = <<>>
    /\ email_logs = <<>>
    /\ notifications = <<>>
    /\ businesses = [k \in 1..Len(DEMO_BUSINESSES) |->
                         [business_id |-> k,
                          name |-> DEMO_BUSINESSES[k].name,
                          store_type |-> DEMO_BUSINESSES[k].store_type,
                          insurance_company_id |-> DefaultCompany]]
    /\ \E profiles \in {p \in [1..Len(DEMO_BUSINESSES) -> StatusProfiles] :
                            \A k \in 1..3 : p[k + 3] = p[k]} :
           /\ seeded_status = [k \in {<<b, DateStr(0)>> : b \in 1..Len(DEMO_BUSINESSES)}
                                  |-> profiles[k[1]]]
           /\ sensor_readings = GenerateAll(businesses, 0, profiles)
    /\ recommendation_tracking = <<>>
    /\ business_rankings = UpdateAll(businesses, <<>>, <<>>, <<>>, 0)
    /\ insurance_companies = {DefaultCompany}
    /\ policies = [SeededPolicies(<<>>) EXCEPT ![1].policy_id = 1, ![2].policy_id = 2,
                                               ![3].policy_id = 3]
    /\ sessions = [s \in Sessions |-> NoSession]
    /\ response = [op |-> "run_daily_sensor_generation"]
    /\ call = NoResult
    /\ result = NoResult

NextFleet ==
    \/ Tick
    \/ \E user_business_id \in BusinessIds \cup {NoBusinessId}, limit \in Limits :
           get_business_ranking(user_business_id, limit)

SpecFleet == InitFleet /\ [][NextFleet]_vars

\* The rebuilds of the three sessions interleaved, from the tables as they are when
\* seed_data has run and a registration has committed its business and user.
InitRebuild ==
    /\ now = 0
    /\ serial = [business_id |-> 2, user_id |-> 4, policy_id |-> 3]
    /\ users = <<[user_id |-> 4, role |-> "Business", business_id |-> 2]>>
    /\ business_notes = <<>>
    /\ risk_assessments = <<>>
    /\ claims = <<>>
    /\ email_logs = <<>>
    /\ notifications = <<>>
    /\ \E store_type \in StoreTypes :
           businesses = <<[business_id |-> 1,
                           name |-> DEMO_BUSINESSES[1].name,
                           store_type |-> DEMO_BUSINESSES[1].store_type,
                           insurance_company_id |-> DefaultCompany],
                          [business_id |-> 2,
                           name |-> "Registered Business",
                           store_type |-> store_type,
                           insurance_company_id |-> NoCompany]>>
    /\ sensor_readings = <<>>
    /\ recommendation_tracking = <<>>
    /\ business_rankings = <<>>
    /\ seeded_status = <<>>
    /\ insurance_companies = {DefaultCompany}
    /\ policies = [SeededPolicies(<<>>) EXCEPT ![1].policy_id = 1, ![2].policy_id = 2,
                                               ![3].policy_id = 3]
    /\ sessions = [s \in Sessions |-> NoSession]
    /\ response = [op |-> "register", business_id |-> 2]
    /\ call = NoResult
    /\ result = NoResult

NextRebuild ==
    \/ daily_begin
    \/ daily_check
    \/ daily_commit
    \/ seeding_check
    \/ seeding_commit
    \/ device_begin
    \/ device_check
    \/ device_commit

SpecRebuild == InitRebuild /\ [][NextRebuild]_vars

\* The comparison of one business, stored or unknown, on either day.
NextTrend ==
    \/ seed_data
    \/ \E store_type \in StoreTypes : register(store_type, NoCompany)
    \/ Tick
    \/ \E business_id \in 1..MaxBusinesses : compare_businesses({business_id})

SpecTrend == Init /\ [][NextTrend]_vars

\* The records insurers keep about a business, and the deletion of its account.
NextAccount ==
    \/ \E store_type \in StoreTypes : register(store_type, NoCompany)
    \/ \E current_user \in Admins, business_id \in 1..MaxBusinesses :
           \/ create_business_note(current_user, business_id)
           \/ create_risk_assessment(current_user, business_id)
           \/ create_claim(current_user, business_id)
           \/ notify_violation(current_user, business_id)
           \/ \E compliance_threshold \in Thresholds :
                  /\ Room(MaxPolicies)
                  /\ create_policy(current_user, business_id, NoStoreType, compliance_threshold)
    \/ \E i \in DOMAIN users : delete_account(users[i])

SpecAccount == Init /\ [][NextAccount]_vars

\* The insurers create, edit and delete the policies of the registered businesses.
MaxEdited == 2     \* policies created through POST /insurance/policies and left
PolicyIds == 1..(MaxEdited + 1)

NextPolicyEdit ==
    \/ \E store_type \in StoreTypes : register(store_type, DefaultCompany)
    \/ \E current_user \in CurrentUsers, business_id \in 1..MaxBusinesses,
           compliance_threshold \in Thresholds :
           /\ Room(MaxEdited)
           /\ create_policy(current_user, business_id, NoStoreType, compliance_threshold)
    \/ \E current_user \in CurrentUsers, policy_id \in PolicyIds,
           compliance_threshold \in Thresholds :
           update_policy(current_user, policy_id, compliance_threshold)
    \/ \E current_user \in CurrentUsers, policy_id \in PolicyIds :
           delete_policy(current_user, policy_id)

SpecPolicyEdit == Init /\ [][NextPolicyEdit]_vars

\* The insurers create policies and send violation warnings.
NextNotify ==
    \/ \E store_type \in StoreTypes : register(store_type, DefaultCompany)
    \/ \E current_user \in CurrentUsers, business_id \in 1..MaxBusinesses,
           compliance_threshold \in Thresholds :
           /\ Room(MaxPolicies)
           /\ create_policy(current_user, business_id, NoStoreType, compliance_threshold)
    \/ \E current_user \in CurrentUsers, business_id \in 1..MaxBusinesses :
           notify_violation(current_user, business_id)

SpecNotify == Init /\ [][NextNotify]_vars

\* Two create_policy requests served at the same time.
NextRace ==
    \/ \E store_type \in StoreTypes : register(store_type, NoCompany)
    \/ \E s \in PolicyRequests, current_user \in CurrentUsers,
           business_id \in 1..MaxBusinesses, compliance_threshold \in Thresholds :
           create_policy_check(s, current_user, business_id, compliance_threshold)
    \/ \E s \in PolicyRequests : create_policy_commit(s)

SpecRace == Init /\ [][NextRace]_vars

(***************************************************************************)
(* Claims about the scorer, checked under SpecScore.                       *)
(***************************************************************************)
Scored == result # NoResult

SeverityWeight(status) ==
    CASE status = "normal" -> 100
      [] status = "warning" -> 50
      [] status = "critical" -> 0

RECURSIVE SumWeights(_)
SumWeights(sensors) ==
    IF sensors = <<>> THEN 0
    ELSE SeverityWeight(Head(sensors).status) + SumWeights(Tail(sensors))

OfType(sensors, type) == SelectSeq(sensors, LAMBDA s : s.sensor_type = type)

\* floor of the mean severity weight of the snapshot's sensors of one type, 0 if none
SeverityMean(sensors, type) ==
    IF OfType(sensors, type) = <<>> THEN 0
    ELSE SumWeights(OfType(sensors, type)) \div Len(OfType(sensors, type))

HasScore(r, category, value) ==
    /\ category \in DOMAIN r.category_scores
    /\ r.category_scores[category] = value

\* A category's score as a client reads it: 0 when the result carries no such category.
ScoreOf(r, category) ==
    IF category \in DOMAIN r.category_scores THEN r.category_scores[category] ELSE 0

\* C1: each sensor-derived category score is the floor of the mean severity weight
\* (normal 100, warning 50, critical 0) of the snapshot's sensors of its type, and 0
\* when the snapshot holds no sensor of that type.
C1_CategoryIsSeverityMean ==
    Scored =>
        /\ ScoreOf(result, "temperature_control") = SeverityMean(call.sensors, "Temperature")
        /\ ScoreOf(result, "equipment_maintenance") = SeverityMean(call.sensors, "Power")
        /\ ScoreOf(result, "inventory_management") = SeverityMean(call.sensors, "Humidity")

RECURSIVE SumOver(_, _)
SumOver(f, S) ==
    IF S = {} THEN 0
    ELSE LET x == CHOOSE y \in S : TRUE IN f[x] + SumOver(f, S \ {x})

ActiveCategories(r) == {c \in DOMAIN r.category_scores : r.category_scores[c] > 0}

\* C2: the overall score is the floor of the mean of exactly the category scores that
\* are strictly greater than 0, and 0 when no category score is greater than 0.
C2_OverallIsMeanOfActive ==
    Scored =>
        result.overall_score =
            IF ActiveCategories(result) = {} THEN 0
            ELSE SumOver(result.category_scores, ActiveCategories(result))
                     \div Cardinality(ActiveCategories(result))

CountOf(sensors, type, status) ==
    Cardinality({i \in DOMAIN sensors :
                    sensors[i].sensor_type = type /\ sensors[i].status = status})

EndToEndInput ==
    /\ Len(call.sensors) = 3
    /\ CountOf(call.sensors, "Temperature", "normal") = 1
    /\ CountOf(call.sensors, "Temperature", "warning") = 1
    /\ CountOf(call.sensors, "Power", "critical") = 1
    /\ call.recommendations_followed = 3
    /\ call.recommendations_total = 4

\* C3: for 2 Temperature sensors (normal, warning), 1 Power sensor (critical), no
\* Humidity sensor and 3 of 4 recommendations implemented the scorer returns
\* temperature_control 75, equipment_maintenance 0, inventory_management 0,
\* safety_protocols 75, overall 50 and rank 'Needs Improvement'.
C3_EndToEndScenario ==
    (Scored /\ EndToEndInput) =>
        /\ HasScore(result, "temperature_control", 75)
        /\ HasScore(result, "equipment_maintenance", 0)
        /\ HasScore(result, "inventory_management", 0)
        /\ HasScore(result, "safety_protocols", 75)
        /\ result.overall_score = 50
        /\ result.rank = "Needs Improvement"

\* C4: an empty snapshot with 0 of 0 recommendations scores overall 0, each of the
\* four categories 0, and rank 'No Data'.
C4_NoDataShortCircuit ==
    (Scored /\ call.sensors = <<>> /\ call.recommendations_total = 0) =>
        /\ result.overall_score = 0
        /\ \A c \in Categories : HasScore(result, c, 0)
        /\ result.rank = "No Data"

\* C5: with an empty snapshot and recommendations_total > 0 the scorer does not
\* short-circuit: safety_protocols = floor(followed / total * 100), the overall score
\* equals it, and the given counts are reported; 3 of 4 gives 75 and rank 'Fair'.
C5_RecommendationsOnly ==
    (Scored /\ call.sensors = <<>> /\ call.recommendations_total > 0) =>
        LET pct == (100 * call.recommendations_followed) \div call.recommendations_total
        IN  /\ HasScore(result, "safety_protocols", pct)
            /\ result.overall_score = pct
            /\ result.recommendations_followed = call.recommendations_followed
            /\ result.recommendations_total = call.recommendations_total
            /\ (call.recommendations_followed = 3 /\ call.recommendations_total = 4)
                   => (pct = 75 /\ result.rank = "Fair")

RankLabels == {"Excellent", "Good", "Fair", "Needs Improvement", "No Data"}

\* C6: whenever any sensor or recommendation data exists the rank label follows from
\* the overall score alone (Excellent iff >= 90, Good iff 75..89, Fair iff 60..74,
\* Needs Improvement iff < 60), and no label outside the five rank labels is returned.
C6_RankFromOverall ==
    Scored =>
        /\ result.rank \in RankLabels
        /\ (call.sensors # <<>> \/ call.recommendations_total > 0) =>
               /\ result.rank = "Excellent" <=> result.overall_score >= 90
               /\ result.rank = "Good" <=>
                      (75 <= result.overall_score /\ result.overall_score < 90)
               /\ result.rank = "Fair" <=>
                      (60 <= result.overall_score /\ result.overall_score < 75)
               /\ result.rank = "Needs Improvement" <=> result.overall_score < 60

(***************************************************************************)
(* Claims about the handlers over the tables.                              *)
(***************************************************************************)

\* C7: recomputing a business's compliance result is deterministic: for the stored
\* readings and recommendations as they are, every computation the compliance or the
\* ranking operation can make for the business gives the result the response shows
\* (overall score, category scores, recommendation counts, rank label), also for a
\* business without any data.
C7_RecomputationDeterministic ==
    /\ response.op = "compliance" =>
           \A draws \in DrawsFor({response.business_id}) :
               RealTimeCompliance(response.business_id,
                                  DrawOf(draws, response.business_id)).compliance
                   = response.compliance
    /\ response.op = "ranking" =>
           \A draws \in DrawsFor(BusinessIds) :
               \A i \in DOMAIN response.business_scores :
                   \A k \in DOMAIN response.all_businesses :
                       response.all_businesses[k].business_id
                               = response.business_scores[i].business_id =>
                           LET again == BusinessScore(response.all_businesses[k], draws)
                               shown == response.business_scores[i]
                           IN  /\ again.score = shown.score
                               /\ again.rank_level = shown.rank_level
                               /\ again.recommendations_followed
                                      = shown.recommendations_followed
                               /\ again.recommendations_total = shown.recommendations_total

\* the readings of business B not older than H hours
InWindow(B, H) ==
    {sensor_readings[i] : i \in {j \in DOMAIN sensor_readings :
        /\ sensor_readings[j].business_id = B
        /\ sensor_readings[j].timestamp >= now - H}}

\* C8: for business B and a window of H hours the reader returns exactly one reading
\* for each sensor identifier that has a reading of B with timestamp >= now - H, that
\* reading has the maximum timestamp among B's readings of the sensor in the window,
\* no returned reading is older than now - H, and no sensor is returned twice.
C8_ReaderLatestPerSensor ==
    response.op = "readings" =>
        LET mine == InWindow(response.business_id, response.hours)
            returned == response.sensors
        IN  /\ \A id \in {r.sensor_id : r \in mine} :
                   /\ Cardinality({i \in DOMAIN returned : returned[i].sensor_id = id}) = 1
                   /\ \A i \in DOMAIN returned :
                          returned[i].sensor_id = id =>
                              /\ \E r \in mine : /\ r.sensor_id = id
                                                 /\ r.timestamp = returned[i].timestamp
                              /\ \A r \in mine :
                                     r.sensor_id = id => r.timestamp <= returned[i].timestamp
            /\ \A i \in DOMAIN returned : returned[i].timestamp >= now - response.hours
            /\ \A i, j \in DOMAIN returned :
                   i # j => returned[i].sensor_id # returned[j].sensor_id

\* C8's case: stored readings were returned for a business one of whose sensors has
\* two readings of different times in the window.
C8_TwoReadingsInWindow ==
    /\ response.op = "readings"
    /\ \A i \in DOMAIN response.sensors : response.sensors[i].stored
    /\ \E r, q \in InWindow(response.business_id, response.hours) :
           r.sensor_id = q.sensor_id /\ r.timestamp < q.timestamp

\* C9: every reading the reader returns for business B has business identifier B,
\* also where another business holds a reading with the same sensor identifier and
\* the same timestamp.
C9_ReadingsBelongToBusiness ==
    response.op = "readings" =>
        \A i \in DOMAIN response.sensors :
            response.sensors[i].business_id = response.business_id

\* position of a business in the order storage returned
StoredPosition(all_businesses, business_id) ==
    CHOOSE k \in DOMAIN all_businesses : all_businesses[k].business_id = business_id

\* C10: for N scored businesses the ranking operation assigns the rank positions
\* 1..N, each once; a strictly higher overall score gets a strictly smaller position,
\* and businesses of equal score keep the order in which storage returned them.
C10_RanksDenseSortedStable ==
    response.op = "ranking" =>
        LET scores == response.business_scores
            N == Len(response.all_businesses)
        IN  /\ Len(scores) = N
            /\ {scores[i].business_id : i \in DOMAIN scores}
                   = {response.all_businesses[k].business_id : k \in 1..N}
            /\ \A i \in DOMAIN scores : scores[i].rank \in 1..N
            /\ \A p \in 1..N : Cardinality({i \in DOMAIN scores : scores[i].rank = p}) = 1
            /\ \A i, j \in DOMAIN scores :
                   /\ scores[i].score > scores[j].score => scores[i].rank < scores[j].rank
                   /\ (/\ scores[i].score = scores[j].score
                       /\ StoredPosition(response.all_businesses, scores[i].business_id)
                              < StoredPosition(response.all_businesses, scores[j].business_id))
                          => scores[i].rank < scores[j].rank

\* C10's case: two businesses of equal score were ranked, storage having returned
\* them in the reverse of their insertion order.
C10_TieRanked ==
    /\ response.op = "ranking"
    /\ Len(response.business_scores) >= 2
    /\ response.business_scores[1].score = response.business_scores[2].score
    /\ response.all_businesses[1].business_id > response.all_businesses[2].business_id

(***************************************************************************)
(* Claims about the ranking over a fleet larger than the limit.            *)
(***************************************************************************)

\* C11: the ranking is computed over every business in storage, whatever their number
\* relative to limit: every business is scored, rankings holds the first limit
\* businesses other than the caller's, and the position reported for the caller's
\* business is its position among all businesses.
C11_RankingCoversWholeFleet ==
    response.op = "ranking" =>
        LET scores == response.business_scores
            caller == response.user_business_id
        IN  /\ {scores[i].business_id : i \in DOMAIN scores} = BusinessIds
            /\ Len(response.rankings)
                   = Min(response.limit, Cardinality(BusinessIds \ {caller}))
            /\ response.your_business # None =>
                   \E i \in DOMAIN scores :
                       /\ scores[i].business_id = caller
                       /\ response.your_business.rank = scores[i].rank

\* C12: the caller's business, when it is among the scored businesses, never appears
\* in rankings but only in your_business; rankings has at most limit entries and
\* your_business does not count against limit; a caller without a business gets
\* your_business null and no business is withheld from rankings.
C12_CallerExcluded ==
    response.op = "ranking" =>
        LET scores == response.business_scores
            caller == response.user_business_id
            own == {i \in DOMAIN scores : scores[i].business_id = caller}
        IN  /\ Len(response.rankings) <= response.limit
            /\ \A i \in own :
                   /\ \A j \in DOMAIN response.rankings :
                          response.rankings[j].rank # scores[i].rank
                   /\ response.your_business = Entry(scores[i])
                   /\ Len(response.rankings) = Min(response.limit, Len(scores) - 1)
            /\ caller = NoBusinessId =>
                   /\ response.your_business = None
                   /\ Len(response.rankings) = Min(response.limit, Len(scores))
                   /\ \A j \in DOMAIN response.rankings :
                          response.rankings[j] = Entry(scores[j])

\* C12's case: the caller's business holds position 1 among several scored businesses
\* and limit is 1: rankings holds the business at position 2.
C12_CallerRankedFirst ==
    /\ response.op = "ranking"
    /\ response.limit = 1
    /\ Len(response.business_scores) >= 3
    /\ response.business_scores[1].business_id = response.user_business_id
    /\ Len(response.rankings) = 1
    /\ response.your_business.rank = 1

\* C13: a business with no sensor reading in the window and no recommendation entry
\* is not skipped and is not given invented data: the ranking (and the compliance
\* operation) shows it with overall score 0 and rank label 'No Data'.
C13_NoDataBusinessRanked ==
    /\ response.op = "ranking" =>
           \A k \in DOMAIN response.all_businesses :
               NoRealData(response.all_businesses[k].business_id) =>
                   \E i \in DOMAIN response.business_scores :
                       /\ response.business_scores[i].business_id
                              = response.all_businesses[k].business_id
                       /\ response.business_scores[i].score = 0
                       /\ response.business_scores[i].rank_level = "No Data"
    /\ (response.op = "compliance" /\ NoRealData(response.business_id)) =>
           /\ response.compliance.overall_score = 0
           /\ response.compliance.rank = "No Data"

(***************************************************************************)
(* Claims about the insurer's portfolio.                                   *)
(***************************************************************************)
PortfolioShown == response.op = "portfolio"

\* C14: every portfolio entry's risk tier follows from its compliance score alone:
\* Low for a score of at least 90, Medium for at least 75 and below 90, High for at
\* least 60 and below 75, Critical below 60.
C14_RiskTierFromScore ==
    PortfolioShown =>
        \A i \in DOMAIN response.businesses :
            LET e == response.businesses[i]
            IN  /\ e.risk_level = "Low" <=> e.compliance_score >= 90
                /\ e.risk_level = "Medium" <=>
                       (75 <= e.compliance_score /\ e.compliance_score < 90)
                /\ e.risk_level = "High" <=>
                       (60 <= e.compliance_score /\ e.compliance_score < 75)
                /\ e.risk_level = "Critical" <=> e.compliance_score < 60

\* C14's case: the portfolio shows a business whose score is exactly 60, the lower
\* bound of the High tier, next to one in another tier.
C14_ScoreOnTierBound ==
    /\ PortfolioShown
    /\ \E i, j \in DOMAIN response.businesses :
           /\ response.businesses[i].compliance_score = 60
           /\ response.businesses[i].risk_level = "High"
           /\ response.businesses[j].risk_level # "High"

\* the policies of a company scoped to one business
BusinessPolicies(company, business_id) ==
    {i \in DOMAIN policies : /\ policies[i].insurance_company_id = company
                             /\ policies[i].business_id = business_id}

\* the policies of a company scoped to a store type and to no business
StoreTypePolicies(company, store_type) ==
    {i \in DOMAIN policies : /\ policies[i].insurance_company_id = company
                             /\ policies[i].business_id = NoBusinessId
                             /\ policies[i].store_type = store_type}

\* C15: for each portfolio entry the threshold compared against is that of the
\* insurer's most specific policy: the policy scoped to the business if one exists,
\* otherwise the insurer's policy scoped to the business's store type; only when
\* neither exists is there no threshold, and then policy_violated is false.
C15_MostSpecificPolicy ==
    PortfolioShown =>
        LET company == get_insurance_company_id(response.current_user)
        IN  \A k \in DOMAIN response.businesses :
                LET e == response.businesses[k]
                    specific == BusinessPolicies(company, e.business_id)
                    typed == StoreTypePolicies(company, e.store_type)
                IN  IF specific # {}
                    THEN \E i \in specific :
                             e.policy_threshold = Some(policies[i].compliance_threshold)
                    ELSE IF typed # {}
                    THEN \E i \in typed :
                             e.policy_threshold = Some(policies[i].compliance_threshold)
                    ELSE e.policy_threshold = Nothing /\ ~e.policy_violated

Passes(filter, value) == filter = Nothing \/ value = filter[1]

\* the businesses of storage in the caller's scope
ScopedBusinesses(current_user) ==
    {businesses[i] : i \in {k \in DOMAIN businesses : InScope(businesses[k], current_user)}}

\* C17: for every combination of supplied filters the portfolio returns exactly the
\* in-scope businesses that satisfy all of them: risk tier equal to risk_level, store
\* type equal to store_type, score >= min_score and score <= max_score, for every
\* filter value including min_score = 0 and max_score = 0.
C17_FiltersSelectExactly ==
    PortfolioShown =>
        LET shown == {response.businesses[i].business_id : i \in DOMAIN response.businesses}
            satisfying ==
                {b.business_id : b \in
                    {c \in ScopedBusinesses(response.current_user) :
                        LET score == calculate_compliance_score_for_business(c).overall_score
                        IN  /\ Passes(response.risk_level, RiskOf(score))
                            /\ Passes(response.store_type, c.store_type)
                            /\ response.min_score # Nothing => score >= response.min_score[1]
                            /\ response.max_score # Nothing => score <= response.max_score[1]}}
        IN  shown = satisfying

\* the businesses of storage linked to a company
LinkedTo(company) ==
    {businesses[i].business_id :
        i \in {k \in DOMAIN businesses : businesses[k].insurance_company_id = company}}

\* C18: the portfolio of an insurer who is no admin contains only businesses linked
\* to that insurer's company (without filters: exactly those), whatever businesses of
\* other insurers storage holds; an admin's portfolio contains every business.
C18_PortfolioScopedToInsurer ==
    (PortfolioShown /\ response.risk_level = Nothing /\ response.store_type = Nothing
                    /\ response.min_score = Nothing /\ response.max_score = Nothing) =>
        LET user == response.current_user
            company == IF user.insurance_company_id # NoCompany
                       THEN user.insurance_company_id ELSE user.user_id
            shown == {response.businesses[i].business_id : i \in DOMAIN response.businesses}
        IN  IF user.role = "Admin" THEN shown = BusinessIds
            ELSE shown = LinkedTo(company)

\* C18's case: storage holds businesses of two insurers and an insurer who is no
\* admin is shown its own business only.
C18_OtherInsurersBusinessHidden ==
    /\ PortfolioShown
    /\ response.current_user.role = "Insurance"
    /\ response.total = 1
    /\ Len(businesses) = 2
    /\ businesses[1].insurance_company_id # businesses[2].insurance_company_id
    /\ businesses[1].insurance_company_id # NoCompany
    /\ businesses[2].insurance_company_id # NoCompany

(***************************************************************************)
(* Claims about the ranking rows.                                          *)
(***************************************************************************)

AuthoritativeResult(business_id) ==
    LET recommendations == Rows(recommendation_tracking, business_id)
    IN  calculate_compliance_score(
            get_latest_sensors_for_business(sensor_readings, business_id, 24, now),
            Implemented(recommendations), Len(recommendations))

\* the businesses whose rows an operation rebuilds
RebuiltBy(op) ==
    IF op = "register"
    THEN {businesses[i].business_id :
              i \in {k \in DOMAIN businesses : businesses[k].name \notin DEMO_BUSINESS_NAMES}}
    ELSE BusinessIds

\* a rebuild has committed and no other session has begun a transaction
RebuiltAlone ==
    /\ "status" \in DOMAIN response
    /\ response.status = "committed"
    /\ \A s \in Sessions : sessions[s].pc = "idle"
    /\ Cardinality({s \in Sessions : sessions[s].runs > 0}) = 1

\* C20: after an operation that rebuilds a business's ranking row (daily generation,
\* registration seeding, device simulation), the row's overall score, rank label and
\* recommendation counts equal what the scorer of the compliance and portfolio
\* operations returns for the business's current readings and recommendation entries.
C20_RowEqualsScorer ==
    RebuiltAlone =>
        \A b \in RebuiltBy(response.op) :
            \E i \in RankingRows(business_rankings, b) :
                LET row == business_rankings[i]
                    scored == AuthoritativeResult(b)
                IN  /\ row.overall_score = Tenths(scored.overall_score)
                    /\ row.rank_level = scored.rank
                    /\ row.recommendations_followed = scored.recommendations_followed
                    /\ row.recommendations_total = scored.recommendations_total

\* C21: after a sensor-generation run (the daily generation, or the seeding of a
\* registration) every business has a ranking row whose rank is its 1-based position
\* among all businesses ordered by stored overall score descending: the ranks are
\* 1..N, each once, and a higher stored score has a smaller rank.
C21_StoredRanksArePositions ==
    (response.op = "run_daily_sensor_generation"
         \/ (response.op = "register" /\ response.business_id # NoBusinessId)) =>
        LET N == Len(businesses)
            rows == business_rankings
        IN  /\ \A b \in BusinessIds : RankingRows(rows, b) # {}
            /\ \A i \in DOMAIN rows : rows[i].rank \in 1..N
            /\ \A i, j \in DOMAIN rows :
                   /\ i # j => rows[i].rank # rows[j].rank
                   /\ rows[i].overall_score > rows[j].overall_score
                          => rows[i].rank < rows[j].rank

(***************************************************************************)
(* Claims about the comparison's trend.                                    *)
(***************************************************************************)

\* C22: the trend of every compared business has one entry per day for 7 consecutive
\* days, oldest first, ending today; the last entry has exactly the current score and
\* every earlier entry's score lies in [0, 100] and within 5 points of the current
\* score.
C22_TrendEndsAtCurrentScore ==
    response.op = "compare" =>
        \A k \in DOMAIN response.comparison :
            LET entry == response.comparison[k]
                trend == entry.trend
                current == Tenths(entry.current_score)
            IN  /\ Len(trend) = 7
                /\ \A i \in 1..7 : trend[i].date = now - 24 * (7 - i)
                /\ trend[7].score = current
                /\ \A i \in 1..6 :
                       /\ trend[i].score >= 0
                       /\ trend[i].score <= 1000
                       /\ trend[i].score >= current - 50
                       /\ trend[i].score <= current + 50


(***************************************************************************)
(* Claims about the insurers' records and account deletion.                *)
(***************************************************************************)

\* some row of the table refers to the business
RefersTo(table, business_id) == \E i \in DOMAIN table : table[i].business_id = business_id

\* every row of the table before the step is a row of the table after it
RowsKept(before, after) == \A i \in DOMAIN before : \E j \in DOMAIN after : after[j] = before[i]

\* C23: delete_account is all-or-nothing.  When it succeeds, the user, the business and
\* every sensor reading, recommendation entry, ranking row, note, risk assessment,
\* policy and claim of the business are gone; when it fails, storage is as it was; and
\* no other operation deletes a sensor reading or a recommendation entry.
C23_DeleteAccountAllOrNothing ==
    [][/\ (response'.op = "delete_account" /\ response'.status = 200) =>
              LET business_id == response'.current_user.business_id
              IN  /\ \A i \in DOMAIN users' :
                         users'[i].user_id # response'.current_user.user_id
                  /\ ~RefersTo(businesses', business_id)
                  /\ ~RefersTo(sensor_readings', business_id)
                  /\ ~RefersTo(recommendation_tracking', business_id)
                  /\ ~RefersTo(business_rankings', business_id)
                  /\ ~RefersTo(business_notes', business_id)
                  /\ ~RefersTo(risk_assessments', business_id)
                  /\ ~RefersTo(policies', business_id)
                  /\ ~RefersTo(claims', business_id)
       /\ (response'.op = "delete_account" /\ response'.status = 500) =>
              UNCHANGED <<storage, insurance, records>>
       /\ response'.op # "delete_account" =>
              /\ RowsKept(sensor_readings, sensor_readings')
              /\ RowsKept(recommendation_tracking, recommendation_tracking')
      ]_vars

\* the only business ever registered had a policy, and its account deletion removed
\* the business and the policy
C23_AccountDeleted ==
    /\ response.op = "delete_account"
    /\ response.status = 200
    /\ serial.business_id = 1
    /\ serial.policy_id = 1
    /\ businesses = <<>>
    /\ policies = <<>>
    /\ users = <<>>


\* C24: the writers of sensor readings keep them unique: after any sequence of daily
\* runs and registration seedings, two runs for one date included, no two readings
\* share business, sensor id and timestamp.
C24_ReadingsUniquePerSensorAndTime ==
    \A i, j \in DOMAIN sensor_readings :
        (/\ sensor_readings[i].business_id = sensor_readings[j].business_id
         /\ sensor_readings[i].sensor_id = sensor_readings[j].sensor_id
         /\ sensor_readings[i].timestamp = sensor_readings[j].timestamp) => i = j


\* C25: create_policy answers 409 and adds nothing when the caller's company already
\* has a policy for the business, and 404 and adds nothing for an unknown business: a
\* policy is added only for a known business the company has no policy for.  So over
\* every run of create_policy, update_policy and delete_policy an insurer has at most
\* one policy scoped to a business.
C25_OnePolicyPerInsurerAndBusiness ==
    [][/\ (response'.op = "create_policy" /\ response'.status \in {404, 409}) =>
              policies' = policies
       /\ (response'.op = "create_policy" /\ response'.status = 200) =>
              /\ response'.policy.business_id \in BusinessIds
              /\ \A i \in DOMAIN policies :
                     ~(/\ policies[i].insurance_company_id =
                              response'.policy.insurance_company_id
                       /\ policies[i].business_id = response'.policy.business_id)
       /\ \A i, j \in DOMAIN policies' :
              (/\ policies'[i].business_id # NoBusinessId
               /\ policies'[i].business_id = policies'[j].business_id
               /\ policies'[i].insurance_company_id = policies'[j].insurance_company_id)
                  => i = j
      ]_vars

\* a second create_policy of the company for the business was answered with 409 and
\* the policy of the first is the only one
C25_ConflictRejected ==
    /\ response.op = "create_policy"
    /\ response.status = 409
    /\ Len(policies) = 1
    /\ policies[1].business_id \in BusinessIds
    /\ policies[1].insurance_company_id = DefaultCompany


\* hours by which the added reading is older
Earlier == {1, 24}

\* the readings of the same sensor that are older than the stored reading
OlderReadings(reading) ==
    {[reading EXCEPT !.timestamp = reading.timestamp - h, !.status = status] :
         h \in Earlier, status \in Statuses}

\* C26: a business's score depends only on the latest reading per sensor within the
\* window: adding a reading older than a stored in-window reading of the same sensor
\* leaves the compliance dict (overall score, category scores, rank label) of the
\* compliance and ranking operations and of the portfolio operation unchanged.
C26_OlderReadingChangesNothing ==
    \A b \in DOMAIN businesses, i \in DOMAIN sensor_readings :
        (/\ sensor_readings[i].business_id = businesses[b].business_id
         /\ sensor_readings[i].timestamp >= now - 24
         /\ sensor_readings[i].timestamp <= now) =>
            \A older \in OlderReadings(sensor_readings[i]) :
                /\ RecentCompliance(Append(sensor_readings, older),
                                    businesses[b].business_id, NoDraw).compliance
                       = RealTimeCompliance(businesses[b].business_id, NoDraw).compliance
                /\ ScoreForBusiness(Append(sensor_readings, older), businesses[b])
                       = calculate_compliance_score_for_business(businesses[b])


\* the overall score calculate_compliance_score_for_business gives the stored business
CurrentScore(business_id) ==
    calculate_compliance_score_for_business(Rows(businesses, business_id)[1]).overall_score

\* C27: a violation warning is recorded only for a real violation.  A step adds an
\* EmailLog row or a Notification only if it is a notify_violation for a stored
\* business for which the caller's company has a policy whose threshold the current
\* score is strictly below, and the Notification goes to the business's user; a
\* notify_violation that fails adds neither.
C27_WarningOnlyForViolation ==
    [][/\ (email_logs' # email_logs \/ notifications' # notifications) =>
              LET log == email_logs'[Len(email_logs')]
              IN  /\ response'.op = "notify_violation"
                  /\ response'.status = 200
                  /\ email_logs' = Append(email_logs, log)
                  /\ log.business_id \in BusinessIds
                  /\ \E i \in DOMAIN policies :
                         /\ policies[i].insurance_company_id = log.insurance_company_id
                         /\ policies[i].business_id = log.business_id
                         /\ CurrentScore(log.business_id) < policies[i].compliance_threshold
                  /\ \/ notifications' = notifications
                     \/ \E u \in DOMAIN users :
                            /\ users[u].business_id = log.business_id
                            /\ notifications' =
                                   Append(notifications,
                                          [user_id |-> users[u].user_id,
                                           sender_user_id |-> log.sent_by_user_id])
       /\ (response'.op = "notify_violation" /\ response'.status # 200) =>
              UNCHANGED <<email_logs, notifications>>
      ]_vars

\* a warning was sent for a business whose score is below the threshold of the policy:
\* one EmailLog row and one Notification are stored
C27_WarningRecorded ==
    /\ response.op = "notify_violation"
    /\ response.status = 200
    /\ response.current_score < response.compliance_threshold
    /\ Len(email_logs) = 1
    /\ Len(notifications) = 1


\* C28: two create_policy requests of one insurance company for one business that are
\* served at the same time never both succeed: however their existence checks and
\* their inserts interleave, the company has at most one policy scoped to the business.
C28_ConcurrentCreateKeepsOnePolicy ==
    ~\E i, j \in DOMAIN policies :
        /\ i < j
        /\ policies[i].business_id # NoBusinessId
        /\ policies[i].business_id = policies[j].business_id
        /\ policies[i].insurance_company_id = policies[j].insurance_company_id


\* C29: claim numbers are unique: over every sequence of create_claim calls and account
\* deletions no two stored claims share a claim number, and create_claim always
\* assigns a number no stored claim holds, so it never fails on an existing number.
C29_ClaimNumbersNeverCollide ==
    /\ \A i, j \in DOMAIN claims :
           claims[i].claim_number = claims[j].claim_number => i = j
    /\ ~(response.op = "create_claim" /\ response.status = 500)


(***************************************************************************)
(* Monotonicity of the scorer, checked under SpecScore.                    *)
(***************************************************************************)

\* the statuses that are better than the status
BetterThan(status) ==
    CASE status = "critical" -> {"warning", "normal"}
      [] status = "warning" -> {"normal"}
      [] OTHER -> {}

\* the overall score of the call with one more recommendation implemented
WithOneMoreFollowed ==
    calculate_compliance_score(call.sensors, call.recommendations_followed + 1,
                               call.recommendations_total).overall_score

\* the overall score of the call with sensor i in a better status
WithBetterStatus(i, status) ==
    calculate_compliance_score([call.sensors EXCEPT ![i].status = status],
                               call.recommendations_followed,
                               call.recommendations_total).overall_score

\* C30: the scorer is monotone: with followed < total, one more implemented
\* recommendation never lowers the overall score, and a better status of one sensor
\* never lowers the overall score.
C30_ScorerMonotone ==
    result # NoResult =>
        /\ call.recommendations_followed < call.recommendations_total =>
               WithOneMoreFollowed >= result.overall_score
        /\ \A i \in DOMAIN call.sensors :
               \A status \in BetterThan(call.sensors[i].status) :
                   WithBetterStatus(i, status) >= result.overall_score

\* a scored call with a warning sensor and a recommendation not yet implemented: each
\* improvement raises the overall score
C30_ImprovementRaisesScore ==
    /\ result # NoResult
    /\ call.recommendations_followed < call.recommendations_total
    /\ WithOneMoreFollowed > result.overall_score
    /\ \E i \in DOMAIN call.sensors :
           /\ call.sensors[i].status = "warning"
           /\ WithBetterStatus(i, "normal") > result.overall_score

====
